---------------------------- MODULE Spec2Model ----------------------------
(***************************************************************************)
(* Model of the certificate check of the URL checker backend:              *)
(*   matchesDomain        (routes, lines 386-403)                           *)
(*   checkSSLCertificate  (routes, lines 298-383)                           *)
(* Strings are sequences of one-character strings, so that toLowerCase,    *)
(* startsWith, endsWith, substring, lastIndexOf and split are computed     *)
(* character by character as the JavaScript runtime computes them.         *)
(***************************************************************************)
EXTENDS Integers, Sequences, FiniteSets, TLC

VARIABLES
    mHost,      \* matchesDomain: argument hostname
    mCert,      \* matchesDomain: argument certName
    mDone,      \* matchesDomain has been applied to (mHost, mCert)
    mResult,    \* matchesDomain: returned boolean
    urlString,  \* checkSSLCertificate: its argument, None before the call
    issues,     \* the array `issues` of the call (shared by all its callbacks)
    requests,   \* number of https.request calls issued by the call
    destroyed,  \* req.destroy() has been called
    gotResponse,\* the response callback has run
    gotError,   \* the 'error' handler has run
    gotTimeout, \* the 'timeout' handler has run
    cert,       \* what getPeerCertificate gave the response callback
    now,        \* `new Date()` of the response callback
    settled,    \* the promise has been resolved
    result,     \* the value the promise was resolved with
    crashed,    \* a callback of the call threw: uncaught exception
    idle,       \* ticks since the last activity on the socket of the request
    elapsed,    \* ticks since the request was issued, while it is in flight
    calls,      \* two concurrent checkSSLCertificate calls: the state of each
    heap,       \* the arrays allocated by the calls, by address
    heapTop,    \* number of arrays allocated
    processDown,\* the Node process has ended on an uncaught exception
    env,        \* process.env: the API-key variables
    request,    \* the HTTP request being served, None when there is none
    served,     \* number of requests received
    layer,      \* position of the request in the middleware stack of the app
    logged,     \* the logging middleware has hooked the response
    handler,    \* the route handler that has taken the request
    pc,         \* where that handler stands
    locals,     \* the variables of that handler
    vtCalls,    \* the requests sent to an outside API for this request
    steps,      \* what has been done for this request, in order
    stored,     \* the urlChecks collection of the storage
    response,   \* the HTTP response sent, None when none was sent
    urlHistory, \* client: the state urlHistory of the URLChecker component
    localStore, \* client: the value stored under STORAGE_KEY, None when absent
    mounted,    \* client: the component has been mounted
    checked,    \* client: number of URL checks that have entered a history
    phoneHistory, \* client: the state phoneHistory of the PhoneChecker component
    phoneStore, \* client: the value stored under the key of the phone history
    phoneMounted, \* client: the PhoneChecker component has been mounted
    phoneChecked, \* client: number of phone checks that have entered a history
    phoneStored, \* server: the phone checks persisted, oldest first
    cCollection, \* server: a collection of checks, in the order of checkedAt
    cPc,        \* server: how far the handler of each followed request has come
    cHistory,   \* server: the history each followed request was answered with
    smStorage,  \* client: this.storage of the StorageManager, "none" for null
    smBrowser,  \* client: what the browser storage holds under the key
    smMemory,   \* client: what memoryStorage holds under the key
    smLast      \* client: the last call of the StorageManager and its result

matchVars == <<mHost, mCert, mDone, mResult>>

sslVars == <<urlString, issues, requests, destroyed, gotResponse, gotError,
             gotTimeout, cert, now, settled, result, crashed, idle, elapsed>>

twoVars == <<calls, heap, heapTop, processDown>>

srvVars == <<env, request, served, layer, logged, handler, pc, locals, vtCalls,
             steps, stored, response>>

histVars == <<urlHistory, localStore, mounted, checked>>

phoneVars == <<phoneHistory, phoneStore, phoneMounted, phoneChecked>>

phoneSrvVars == <<phoneStored>>

concVars == <<cCollection, cPc, cHistory>>

smVars == <<smStorage, smBrowser, smMemory, smLast>>

vars == <<mHost, mCert, mDone, mResult, urlString, issues, requests, destroyed,
          gotResponse, gotError, gotTimeout, cert, now, settled, result,
          crashed, idle, elapsed, calls, heap, heapTop, processDown,
          env, request, served, layer, logged, handler, pc, locals, vtCalls,
          steps, stored, response, urlHistory, localStore, mounted, checked,
          phoneHistory, phoneStore, phoneMounted, phoneChecked,
          phoneStored,
          cCollection, cPc, cHistory,
          smStorage, smBrowser, smMemory, smLast>>

\* The variables a specification of one part leaves alone.
notMatchVars == <<sslVars, twoVars, srvVars, histVars, phoneVars, phoneSrvVars, concVars, smVars>>

notSslVars == <<matchVars, twoVars, srvVars, histVars, phoneVars, phoneSrvVars, concVars, smVars>>

notTwoVars == <<matchVars, sslVars, srvVars, histVars, phoneVars, phoneSrvVars, concVars, smVars>>

notSrvVars == <<matchVars, sslVars, twoVars, histVars, phoneVars, phoneSrvVars, concVars, smVars>>

notHistVars == <<matchVars, sslVars, twoVars, srvVars, phoneVars, phoneSrvVars, concVars, smVars>>

notPhoneVars == <<matchVars, sslVars, twoVars, srvVars, histVars, phoneSrvVars, concVars, smVars>>

notPhoneSrvVars == <<matchVars, sslVars, twoVars, srvVars, histVars, phoneVars, concVars, smVars>>

notSrvPhoneSrvVars == <<matchVars, sslVars, twoVars, histVars, phoneVars, concVars, smVars>>

notConcVars == <<matchVars, sslVars, twoVars, srvVars, histVars, phoneVars, phoneSrvVars, smVars>>

notSmVars == <<matchVars, sslVars, twoVars, srvVars, histVars, phoneVars, phoneSrvVars, concVars>>

notHistSmVars == <<matchVars, sslVars, twoVars, srvVars, phoneVars, phoneSrvVars, concVars>>

-----------------------------------------------------------------------------
(* Bounds of the inputs of matchesDomain.                                  *)

MaxHostLen == 3

MaxBaseLen == 3

\* Characters of the names given to matchesDomain: a letter in both cases,
\* the label separator and the wildcard character.
Chars == {"a", "A", ".", "*"}

Strs(n) == UNION {[1..k -> Chars] : k \in 0..n}

-----------------------------------------------------------------------------
(* String primitives of the JavaScript runtime used by the code.           *)

\* String.prototype.toLowerCase on one character (ASCII letters in use).
LowerChar(ch) ==
    CASE ch = "A" -> "a"
      [] ch = "B" -> "b"
      [] ch = "C" -> "c"
      [] ch = "D" -> "d"
      [] ch = "N" -> "n"
      [] ch = "S" -> "s"
      [] OTHER -> ch

toLowerCase(s) == [i \in 1..Len(s) |-> LowerChar(s[i])]

startsWith(s, p) == Len(s) >= Len(p) /\ SubSeq(s, 1, Len(p)) = p

endsWith(s, p) == Len(s) >= Len(p) /\ SubSeq(s, Len(s) - Len(p) + 1, Len(s)) = p

\* s.substring(k): the characters from 0-based index k to the end.
substring(s, k) == SubSeq(s, k + 1, Len(s))

\* s.lastIndexOf(ch): 0-based index of the last occurrence, -1 when absent.
lastIndexOf(s, ch) ==
    LET at == {i \in 1..Len(s) : s[i] = ch}
    IN  IF at = {} THEN -1
        ELSE (CHOOSE i \in at : \A j \in at : j <= i) - 1

WildcardPrefix == <<"*", ".">>

-----------------------------------------------------------------------------
(* matchesDomain(hostname, certName)                                       *)

\* Faulty variant: only certName is lower-cased.
matchesDomain_noLowerHost(hostname, certName) ==
    LET h == hostname
        c == toLowerCase(certName)
    IN  IF h = c THEN TRUE
        ELSE IF startsWith(c, WildcardPrefix)
             THEN endsWith(h, substring(c, 2)) /\ lastIndexOf(h, ".") > 0
             ELSE FALSE

\* Faulty variant: the wildcard branch forgets the suffix test.
matchesDomain_noSuffix(hostname, certName) ==
    LET h == toLowerCase(hostname)
        c == toLowerCase(certName)
    IN  IF h = c THEN TRUE
        ELSE IF startsWith(c, WildcardPrefix)
             THEN lastIndexOf(h, ".") > 0
             ELSE FALSE

\* Faulty variant: any name starting with "*" is taken for a wildcard.
matchesDomain_starOnly(hostname, certName) ==
    LET h == toLowerCase(hostname)
        c == toLowerCase(certName)
    IN  IF h = c THEN TRUE
        ELSE IF startsWith(c, <<"*">>)
             THEN endsWith(h, substring(c, 2)) /\ lastIndexOf(h, ".") > 0
             ELSE FALSE

matchesDomain(hostname, certName) ==
    LET h == toLowerCase(hostname)
        c == toLowerCase(certName)
    IN  IF h = c THEN TRUE
        ELSE IF startsWith(c, WildcardPrefix)
             THEN endsWith(h, substring(c, 2)) /\ lastIndexOf(h, ".") > 0
             ELSE FALSE

\* matchesDomain not in use.
MatchIdle ==
    /\ mHost = <<>>
    /\ mCert = <<>>
    /\ mDone = FALSE
    /\ mResult = FALSE

-----------------------------------------------------------------------------
(* checkSSLCertificate: values.                                            *)

\* An optional value (undefined / null in the code): <<>> or <<x>>.
None == <<>>

Some(x) == <<x>>

IsSome(o) == Len(o) = 1

\* Bounds of the inputs of checkSSLCertificate.
MaxTime == 2

MaxSans == 2

\* The timeout of the request (timeout: 5000), in ticks of the clock.
TimeoutTicks == 2

\* Host names, spelled character by character.
N_site == <<"a", ".", "b">>

N_SITE == <<"A", ".", "B">>

N_sub == <<"w", ".", "a", ".", "b">>

N_other == <<"c", ".", "b">>

N_wild == <<"*", ".", "a", ".", "b">>

\* What `new URL(urlString)` makes of the argument: it throws (valid = FALSE)
\* or gives the protocol and the host name.
BadUrl == [valid |-> FALSE, protocol |-> "", hostname |-> <<>>]

Urls ==
    {BadUrl} \cup
    [valid : {TRUE}, protocol : {"http:", "https:"}, hostname : {N_site, N_sub}]

\* cert.subjectaltname as the TLS layer renders it: entries joined by ", ",
\* a DNS entry as "DNS:" followed by the name.
DnsPrefix == <<"D", "N", "S", ":">>

IpPrefix == <<"I", "P", ":">>

SanSeparator == <<",", " ">>

SanEntry == [prefix : {DnsPrefix}, name : {N_site, N_other, N_wild}]
            \cup [prefix : {IpPrefix}, name : {N_site}]

SanLists == UNION {[1..k -> SanEntry] : k \in 1..MaxSans}

RECURSIVE RenderSan(_)
RenderSan(l) ==
    IF Len(l) = 0 THEN <<>>
    ELSE IF Len(l) = 1 THEN l[1].prefix \o l[1].name
    ELSE l[1].prefix \o l[1].name \o SanSeparator \o RenderSan(Tail(l))

\* The value of getPeerCertificate: null (no such method), {} (no peer
\* certificate) or a certificate.  subject.CN and subjectaltname are optional.
NullCert == [kind |-> "null", validFrom |-> 0, validTo |-> 0,
             hasSubject |-> FALSE, cn |-> None, subjectaltname |-> None]

EmptyCert == [kind |-> "empty", validFrom |-> 0, validTo |-> 0,
              hasSubject |-> FALSE, cn |-> None, subjectaltname |-> None]

\* A subject with several CN attributes: getPeerCertificate gives subject.CN
\* as an array of the values.
SeveralCNs == <<N_site, N_other>>

CommonNames == {None, Some(<<>>), Some(N_site), Some(N_SITE), Some(N_other),
                Some(N_wild), SeveralCNs}

SubjectAltNames == {None} \cup {Some(RenderSan(l)) : l \in SanLists}

RealCerts ==
    [kind : {"cert"}, validFrom : 0..MaxTime, validTo : 0..MaxTime,
     hasSubject : {TRUE}, cn : CommonNames, subjectaltname : SubjectAltNames]
    \cup
    [kind : {"cert"}, validFrom : 0..MaxTime, validTo : 0..MaxTime,
     hasSubject : {FALSE}, cn : {None}, subjectaltname : SubjectAltNames]

PeerCerts == {NullCert, EmptyCert} \cup RealCerts

\* error.message of the failures of the connection.
NetworkErrors == {"connect ECONNREFUSED", "read ECONNRESET", "getaddrinfo ENOTFOUND"}

SocketHangUp == "socket hang up"

\* One entry of `issues`: the text and the values spliced into it.
Issue(kind, detail) == [kind |-> kind, detail |-> detail]

NotHttps == "Not using HTTPS (secure connection)"

NoCertFound == "No SSL certificate found"

Expired == "Certificate expired or not yet valid"

Mismatch == "Certificate domain mismatch"

ConnError == "SSL connection error"

TimedOut == "Connection timed out"

CheckError == "Error checking SSL"

-----------------------------------------------------------------------------
(* checkSSLCertificate: code.                                              *)

\* s.split(sep) for a separator of two characters.
RECURSIVE split(_, _)
split(s, sep) ==
    LET at == {i \in 1..(Len(s) - Len(sep) + 1) :
                  SubSeq(s, i, i + Len(sep) - 1) = sep}
    IN  IF at = {} THEN <<s>>
        ELSE LET i == CHOOSE k \in at : \A j \in at : k <= j
             IN  <<SubSeq(s, 1, i - 1)>> \o split(SubSeq(s, i + Len(sep), Len(s)), sep)

\* Faulty variant: takes every protocol for https.
IsHttps_any(parsedUrl) == TRUE

IsHttps(parsedUrl) == parsedUrl.protocol = "https:"

\* Faulty variant: forgets the certificate that is not yet valid.
ExpiryIssues_onlyExpired(c, t) ==
    IF t > c.validTo
    THEN <<Issue(Expired, <<c.validFrom, c.validTo>>)>>
    ELSE <<>>

\* Lines 330-336.  Times are counted in days, the unit toLocaleDateString keeps.
ExpiryIssues(c, t) ==
    IF t < c.validFrom \/ t > c.validTo
    THEN <<Issue(Expired, <<c.validFrom, c.validTo>>)>>
    ELSE <<>>

\* Lines 345-347: the names of cert.subjectaltname, [] when it is undefined.
AltNames(c) ==
    IF IsSome(c.subjectaltname)
    THEN LET parts == split(c.subjectaltname[1], SanSeparator)
         IN  [i \in 1..Len(parts) |->
                 IF startsWith(parts[i], DnsPrefix)
                 THEN substring(parts[i], 4) ELSE parts[i]]
    ELSE <<>>

\* Faulty variant: looks at the first alternative name only.
MismatchIssues_firstSan(hostname, c) ==
    IF c.hasSubject /\ IsSome(c.cn) /\ c.cn[1] # <<>>
       /\ ~matchesDomain(hostname, c.cn[1])
    THEN LET altNames == AltNames(c)
             hasMatch == Len(altNames) > 0 /\ matchesDomain(hostname, altNames[1])
         IN  IF ~hasMatch
             THEN <<Issue(Mismatch, <<c.cn[1], hostname>>)>>
             ELSE <<>>
    ELSE <<>>

\* Lines 339-361.  `cn &&` is false for an undefined and for an empty CN.
MismatchIssues(hostname, c) ==
    IF c.hasSubject /\ IsSome(c.cn) /\ c.cn[1] # <<>>
       /\ ~matchesDomain(hostname, c.cn[1])
    THEN LET altNames == AltNames(c)
             hasMatch == \E i \in 1..Len(altNames) :
                             matchesDomain(hostname, altNames[i])
         IN  IF ~hasMatch
             THEN <<Issue(Mismatch, <<c.cn[1], hostname>>)>>
             ELSE <<>>
    ELSE <<>>

\* Lines 343, 389: an array is truthy and has no toLowerCase, so that
\* matchesDomain(hostname, cn) throws a TypeError inside the response callback.
CnThrows(c) == c.hasSubject /\ Len(c.cn) > 1

\* Faulty variant: a single issue still counts as valid.
IsValid_atMostOne(iss) == Len(iss) <= 1

\* Line 364: issues.length === 0.
IsValid(iss) == Len(iss) = 0

\* resolve(value): only the first call settles the promise.  `shared` tells
\* that value.issues is the array `issues` itself and not a fresh array; at
\* is the content of value.issues at the call.
Resolve(isValid, at, shared, by) ==
    IF settled
    THEN UNCHANGED <<settled, result>>
    ELSE /\ settled' = TRUE
         /\ result' = [isValid |-> isValid, issues |-> at, shared |-> shared,
                       by |-> by]

NoResult == [isValid |-> FALSE, issues |-> <<>>, shared |-> FALSE, by |-> "none"]

SslIdle ==
    /\ urlString = None
    /\ issues = <<>>
    /\ requests = 0
    /\ destroyed = FALSE
    /\ gotResponse = FALSE
    /\ gotError = FALSE
    /\ gotTimeout = FALSE
    /\ cert = NullCert
    /\ now = 0
    /\ settled = FALSE
    /\ result = NoResult
    /\ crashed = FALSE
    /\ idle = 0
    /\ elapsed = 0

\* One call before it is made.  `own` is the list of the issues the handlers
\* of the call have pushed, `alone` the value the call resolves with when no
\* other call runs; both are kept beside the arrays of the heap.
IdleCall ==
    [url |-> None, arr |-> 0, requests |-> 0, destroyed |-> FALSE,
     gotResponse |-> FALSE, gotError |-> FALSE, gotTimeout |-> FALSE,
     threw |-> FALSE, settled |-> FALSE, result |-> NoResult,
     own |-> <<>>, alone |-> NoResult]

CallIds == {1, 2}

TwoIdle ==
    /\ calls = [i \in CallIds |-> IdleCall]
    /\ heap = [a \in CallIds |-> <<>>]
    /\ heapTop = 0
    /\ processDown = FALSE

\* The variables of a handler before it runs.
NoLocals ==
    [url |-> <<>>, stats |-> None, isSafe |-> FALSE, text |-> "",
     sslCheck |-> None, hasSslIssues |-> FALSE, sslIssues |-> <<>>]

\* No request has been received; the storage is empty.
SrvQuiet ==
    /\ request = None
    /\ served = 0
    /\ layer = 0
    /\ logged = FALSE
    /\ handler = "none"
    /\ pc = "idle"
    /\ locals = NoLocals
    /\ vtCalls = <<>>
    /\ steps = <<>>
    /\ stored = <<>>
    /\ response = None

NoEnv == [VIRUSTOTAL_API_KEY |-> None, VirusTotal_API |-> None, ABSTRACT_API |-> None]

SrvIdle == env = NoEnv /\ SrvQuiet

\* The client has not been started and has stored nothing.
HistIdle ==
    /\ urlHistory = <<>>
    /\ localStore = None
    /\ mounted = FALSE
    /\ checked = 0

\* The phone checker of the client has not been started.
PhoneIdle ==
    /\ phoneHistory = <<>>
    /\ phoneStore = None
    /\ phoneMounted = FALSE
    /\ phoneChecked = 0

\* No phone check has been persisted.
PhoneSrvIdle ==
    phoneStored = <<>>

\* No concurrent requests are followed.
ConcIdle ==
    /\ cCollection = <<>>
    /\ cPc = <<>>
    /\ cHistory = <<>>

\* No call of the StorageManager has been made.
NoCall == [op |-> "none", arg |-> None, ret |-> None]

\* The StorageManager has not been constructed.
SmIdle ==
    /\ smStorage = "none"
    /\ smBrowser = None
    /\ smMemory = None
    /\ smLast = NoCall

\* The parts of the state a specification of another part does not use.
OthersIdleForSsl == MatchIdle /\ TwoIdle /\ SrvIdle /\ HistIdle /\ PhoneIdle /\ PhoneSrvIdle /\ ConcIdle /\ SmIdle

OthersIdleForMatch == SslIdle /\ TwoIdle /\ SrvIdle /\ HistIdle /\ PhoneIdle /\ PhoneSrvIdle /\ ConcIdle /\ SmIdle

OthersIdleForTwo == MatchIdle /\ SslIdle /\ SrvIdle /\ HistIdle /\ PhoneIdle /\ PhoneSrvIdle /\ ConcIdle /\ SmIdle

OthersIdleForSrv == MatchIdle /\ SslIdle /\ TwoIdle /\ HistIdle /\ PhoneIdle /\ PhoneSrvIdle /\ ConcIdle /\ SmIdle

OthersIdleForHist == MatchIdle /\ SslIdle /\ TwoIdle /\ SrvIdle /\ PhoneIdle /\ PhoneSrvIdle /\ ConcIdle /\ SmIdle

OthersIdleForPhone == MatchIdle /\ SslIdle /\ TwoIdle /\ SrvIdle /\ HistIdle /\ PhoneSrvIdle /\ ConcIdle /\ SmIdle

OthersIdleForPhoneSrv == MatchIdle /\ SslIdle /\ TwoIdle /\ SrvIdle /\ HistIdle /\ PhoneIdle /\ ConcIdle /\ SmIdle

OthersIdleForConc == MatchIdle /\ SslIdle /\ TwoIdle /\ SrvIdle /\ HistIdle /\ PhoneIdle /\ PhoneSrvIdle /\ SmIdle

OthersIdleForSm == MatchIdle /\ SslIdle /\ TwoIdle /\ SrvIdle /\ HistIdle /\ PhoneIdle /\ PhoneSrvIdle /\ ConcIdle

Init == SslIdle /\ OthersIdleForSsl

\* The request is in flight: issued, and neither answered, failed nor destroyed.
InFlight == requests = 1 /\ ~gotResponse /\ ~gotError /\ ~destroyed

\* Lines 298-318, 378-381: the body of the promise executor.
checkSSLCertificate(u) ==
    /\ urlString = None
    /\ urlString' = Some(u)
    /\ IF ~u.valid
       THEN \* new URL throws: the catch resolves with an array of its own
            /\ issues' = <<>>
            /\ requests' = requests
            /\ Resolve(FALSE, <<Issue(CheckError, <<>>)>>, FALSE, "exception")
       ELSE IF ~IsHttps(u)
       THEN /\ issues' = <<Issue(NotHttps, <<>>)>>
            /\ requests' = requests
            /\ Resolve(FALSE, issues', TRUE, "nothttps")
       ELSE /\ issues' = <<>>
            /\ requests' = requests + 1
            /\ UNCHANGED <<settled, result>>
    /\ UNCHANGED <<destroyed, gotResponse, gotError, gotTimeout, cert, now>>
    /\ UNCHANGED <<crashed, idle, elapsed>>
    /\ UNCHANGED notSslVars

\* Faulty variant: no return after the missing certificate is reported.
Respond_noEarlyReturn(c, t) ==
    /\ gotResponse' = TRUE
    /\ cert' = c
    /\ now' = t
    /\ idle' = 0
    /\ IF c.kind # "cert"
       THEN /\ issues' = Append(issues, Issue(NoCertFound, <<>>)) \o ExpiryIssues(c, t)
            /\ Resolve(FALSE, Append(issues, Issue(NoCertFound, <<>>)), TRUE, "nocert")
            /\ UNCHANGED crashed
       ELSE IF CnThrows(c)
       THEN /\ issues' = issues \o ExpiryIssues(c, t)
            /\ crashed' = TRUE
            /\ UNCHANGED <<settled, result>>
       ELSE /\ issues' = issues \o ExpiryIssues(c, t)
                                \o MismatchIssues(urlString[1].hostname, c)
            /\ Resolve(IsValid(issues'), issues', TRUE, "evaluated")
            /\ UNCHANGED crashed
    /\ elapsed' = 0
    /\ UNCHANGED <<urlString, requests, destroyed, gotError, gotTimeout>>
    /\ UNCHANGED notSslVars

\* Lines 319-365: the response callback, given the peer certificate c at time t.
Respond(c, t) ==
    /\ gotResponse' = TRUE
    /\ cert' = c
    /\ now' = t
    /\ idle' = 0
    /\ IF c.kind # "cert"
       THEN /\ issues' = Append(issues, Issue(NoCertFound, <<>>))
            /\ Resolve(FALSE, issues', TRUE, "nocert")
            /\ UNCHANGED crashed
       ELSE IF CnThrows(c)
       THEN \* the exception leaves the callback: resolve is never reached
            /\ issues' = issues \o ExpiryIssues(c, t)
            /\ crashed' = TRUE
            /\ UNCHANGED <<settled, result>>
       ELSE /\ issues' = issues \o ExpiryIssues(c, t)
                                \o MismatchIssues(urlString[1].hostname, c)
            /\ Resolve(IsValid(issues'), issues', TRUE, "evaluated")
            /\ UNCHANGED crashed
    /\ elapsed' = 0
    /\ UNCHANGED <<urlString, requests, destroyed, gotError, gotTimeout>>
    /\ UNCHANGED notSslVars

\* The response arrives while the request is in flight.
OnResponse ==
    /\ InFlight
    /\ \E c \in PeerCerts, t \in 0..MaxTime : Respond(c, t)

\* Faulty variant: the 'error' handler issues the request once more.
Fail_retry(m) ==
    /\ gotError' = TRUE
    /\ requests' = requests + 1
    /\ issues' = Append(issues, Issue(ConnError, <<m>>))
    /\ Resolve(FALSE, issues', TRUE, "error")
    /\ UNCHANGED <<urlString, destroyed, gotResponse, gotTimeout, cert, now>>
    /\ UNCHANGED <<crashed, idle, elapsed>>
    /\ UNCHANGED notSslVars

\* Lines 367-370: the 'error' handler.  The request emits 'error' when the
\* connection fails, and with "socket hang up" when it was destroyed before
\* any response.
Fail(m) ==
    /\ gotError' = TRUE
    /\ requests' = requests
    /\ issues' = Append(issues, Issue(ConnError, <<m>>))
    /\ Resolve(FALSE, issues', TRUE, "error")
    /\ UNCHANGED <<urlString, destroyed, gotResponse, gotTimeout, cert, now>>
    /\ UNCHANGED <<crashed, idle, elapsed>>
    /\ UNCHANGED notSslVars

OnError ==
    /\ requests = 1 /\ ~gotResponse /\ ~gotError
    /\ \E m \in (IF destroyed THEN {SocketHangUp} ELSE NetworkErrors) : Fail(m)

\* Line 315: the socket emits 'timeout' after TimeoutTicks ticks without
\* activity.  After the response the clock is not followed any more: the
\* response is never consumed, and the socket may idle for that long.
TimeoutDue == IF gotResponse THEN ~crashed ELSE idle = TimeoutTicks

\* Lines 372-376: the 'timeout' handler.
OnTimeout ==
    /\ requests = 1 /\ ~gotError /\ ~destroyed /\ ~gotTimeout
    /\ TimeoutDue
    /\ gotTimeout' = TRUE
    /\ destroyed' = TRUE
    /\ issues' = Append(issues, Issue(TimedOut, <<>>))
    /\ Resolve(FALSE, issues', TRUE, "timeout")
    /\ UNCHANGED <<urlString, requests, gotResponse, gotError, cert, now>>
    /\ UNCHANGED <<crashed, idle, elapsed>>
    /\ UNCHANGED notSslVars

\* One tick passes with no activity on the socket of the request in flight.
\* Time does not pass beyond the moment the timeout is due.
Tick ==
    /\ InFlight
    /\ idle < TimeoutTicks
    /\ idle' = idle + 1
    /\ elapsed' = IF elapsed <= TimeoutTicks THEN elapsed + 1 ELSE elapsed
    /\ UNCHANGED <<urlString, issues, requests, destroyed, gotResponse, gotError,
                   gotTimeout, cert, now, settled, result, crashed>>
    /\ UNCHANGED notSslVars

\* The server sends some bytes that do not complete the response headers
\* (handshake records, part of the status line): activity on the socket.
ServerSendsBytes ==
    /\ InFlight
    /\ idle > 0
    /\ idle' = 0
    /\ UNCHANGED <<urlString, issues, requests, destroyed, gotResponse, gotError,
                   gotTimeout, cert, now, settled, result, crashed, elapsed>>
    /\ UNCHANGED notSslVars

Next ==
    \/ \E u \in Urls : checkSSLCertificate(u)
    \/ OnTimeout
    \/ OnError
    \/ OnResponse
    \/ Tick
    \/ ServerSendsBytes

Spec == Init /\ [][Next]_vars

\* value.issues as the caller reads it after the await.
ObservedIssues == IF result.shared THEN issues ELSE result.issues

\* The TLS socket of the request is held: nothing in the call releases it but
\* a failure of the connection (lines 367-370) and req.destroy() (line 373).
SocketOpen == requests >= 1 /\ ~destroyed /\ ~gotError

-----------------------------------------------------------------------------
(* Statements about checkSSLCertificate.                                   *)

HasIssue(iss, kind) == \E i \in 1..Len(iss) : iss[i].kind = kind

Called == IsSome(urlString)

Hostname == urlString[1].hostname

\* The call got a certificate and its response callback ran to its end.
Evaluated == gotResponse /\ cert.kind = "cert" /\ ~crashed

\* The alternative names the certificate was issued with: the entries its
\* subjectaltname was rendered from, a DNS entry standing for its name.
IssuedNames(c) ==
    IF IsSome(c.subjectaltname)
    THEN LET l == CHOOSE x \in SanLists : RenderSan(x) = c.subjectaltname[1]
         IN  {IF l[i].prefix = DnsPrefix THEN l[i].name ELSE l[i].prefix \o l[i].name :
                 i \in 1..Len(l)}
    ELSE {}

\* C5: a URL whose scheme is not https resolves with isValid = false and the
\* one issue "Not using HTTPS (secure connection)", and no request is issued.
C5_NotHttpsOneIssueNoRequest ==
    (Called /\ urlString[1].valid /\ urlString[1].protocol # "https:") =>
        /\ settled
        /\ result.isValid = FALSE
        /\ Len(ObservedIssues) = 1
        /\ ObservedIssues[1].kind = NotHttps
        /\ requests = 0

C5_Witness ==
    /\ Called
    /\ urlString[1].protocol = "http:"
    /\ settled
    /\ result.by = "nothttps"

\* C6: with a certificate obtained, the result holds the expired/not-yet-valid
\* issue and isValid = false when now < validFrom or now > validTo, and holds
\* no such issue when validFrom <= now <= validTo.
C6_ExpiryIssueIffOutsideWindow ==
    Evaluated =>
        LET outside == now < cert.validFrom \/ now > cert.validTo
        IN  /\ settled
            /\ outside => /\ HasIssue(result.issues, Expired)
                          /\ HasIssue(ObservedIssues, Expired)
                          /\ result.isValid = FALSE
            /\ ~outside => /\ ~HasIssue(result.issues, Expired)
                           /\ ~HasIssue(ObservedIssues, Expired)

\* A certificate whose validFrom is in the future.
C6_Witness ==
    /\ Evaluated
    /\ now < cert.validFrom
    /\ cert.validFrom <= cert.validTo
    /\ HasIssue(result.issues, Expired)

\* CN (missing and empty included) and every alternative name fail to match.
NoNameMatches ==
    /\ \/ ~cert.hasSubject
       \/ ~IsSome(cert.cn)
       \/ cert.cn[1] = <<>>
       \/ ~matchesDomain(Hostname, cert.cn[1])
    /\ \A n \in IssuedNames(cert) : ~matchesDomain(Hostname, n)

\* C7 (as claimed): when the CN and all SANs of the presented certificate
\* fail to match the requested hostname, a missing or empty CN included, the
\* result has isValid = false and a domain-mismatch issue naming the hostname.
C7_NoNameMatchesGivesMismatch ==
    (Evaluated /\ NoNameMatches) =>
        /\ result.isValid = FALSE
        /\ \E i \in 1..Len(result.issues) :
              /\ result.issues[i].kind = Mismatch
              /\ result.issues[i].detail[2] = Hostname

\* The CN is there and does not match the requested hostname.
CnMismatch ==
    /\ cert.hasSubject /\ IsSome(cert.cn) /\ cert.cn[1] # <<>>
    /\ ~matchesDomain(Hostname, cert.cn[1])

SomeSanMatches == \E n \in IssuedNames(cert) : matchesDomain(Hostname, n)

\* C8: when the CN does not match, the mismatch issue is appended exactly
\* when no subject-alternative-name entry matches; whenever an entry matches
\* there is no mismatch issue, and the issue names the CN and the hostname.
C8_MismatchOnlyIfNoSanMatches ==
    Evaluated =>
        /\ CnMismatch => (HasIssue(result.issues, Mismatch) <=> ~SomeSanMatches)
        /\ SomeSanMatches => ~HasIssue(ObservedIssues, Mismatch)
        /\ \A i \in 1..Len(result.issues) :
              result.issues[i].kind = Mismatch =>
                  result.issues[i].detail = <<cert.cn[1], Hostname>>

\* The CN and the first alternative name miss, the second one matches.
C8_Witness ==
    /\ Evaluated
    /\ CnMismatch
    /\ cert.subjectaltname = Some(RenderSan(<<[prefix |-> DnsPrefix, name |-> N_other],
                                              [prefix |-> DnsPrefix, name |-> N_site]>>))
    /\ Hostname = N_site
    /\ ~HasIssue(result.issues, Mismatch)

\* C9: in the result delivered on any path, isValid is true iff the issues
\* list of the result is empty at its delivery.
C9_ValidIffNoIssues ==
    settled => (result.isValid <=> result.issues = <<>>)

C9_Witness ==
    /\ settled
    /\ result.by = "evaluated"
    /\ result.isValid
    /\ result.issues = <<>>
    /\ N_other \in IssuedNames(cert)

\* C10 (as claimed): a fetch failure (connection error, timeout, absent
\* certificate) gives isValid = false and an issues list that holds exactly
\* one issue when the caller reads it; after a timeout it holds only
\* "Connection timed out".
C10_FailureHasSingleIssue ==
    (settled /\ result.by \in {"error", "timeout", "nocert"}) =>
        /\ result.isValid = FALSE
        /\ Len(ObservedIssues) = 1
        /\ result.by = "timeout" => ObservedIssues[1].kind = TimedOut

\* C11 (as claimed): a call that has obtained no certificate within the
\* timeout is aborted, whatever the server does; no request stays in flight
\* longer than the timeout.
C11_AbortedWithinTimeout == InFlight => elapsed <= TimeoutTicks

\* C12 (as claimed): once the timeout handler has fired, no callback of the
\* call runs and the issues list of the call does not change.
C12_NoCallbackAfterTimeout ==
    [][gotTimeout => /\ issues' = issues
                     /\ gotError' = gotError
                     /\ gotResponse' = gotResponse]_vars

\* C13 (as claimed): a call opens at most one socket, and the socket is
\* released when the call has completed, on every exit path.
C13_SocketReleasedAtCompletion ==
    /\ requests <= 1
    /\ settled => ~SocketOpen

\* C14 (as claimed): no fault leaves the call, and every error path ends in a
\* resolved result with isValid = false and a non-empty issues list.
C14_EveryFaultBecomesAResult ==
    /\ ~crashed
    /\ (settled /\ result.by # "evaluated") =>
           (result.isValid = FALSE /\ result.issues # <<>>)

\* The call ended without a certificate: connection error, timeout, or an
\* absent certificate payload.
FetchFailed == settled /\ result.by \in {"error", "timeout", "nocert"}

FetchIssues == {ConnError, TimedOut, NoCertFound}

\* C15: when the fetch produced no certificate, the issues returned are the
\* one issue of the failure; no expiry and no mismatch issue is ever in the
\* list, and an absent certificate gives "No SSL certificate found".
C15_FetchFailureIssuesOnly ==
    FetchFailed =>
        /\ Len(result.issues) = 1
        /\ result.issues[1].kind =
               (CASE result.by = "error" -> ConnError
                  [] result.by = "timeout" -> TimedOut
                  [] result.by = "nocert" -> NoCertFound)
        /\ \A i \in 1..Len(ObservedIssues) : ObservedIssues[i].kind \in FetchIssues

C15_Witness ==
    /\ FetchFailed
    /\ result.by = "nocert"
    /\ cert.kind = "empty"
    /\ now > 0

\* C16: a call makes at most one connection attempt; after an error or a
\* timeout no second request is issued.
C16_AtMostOneRequest == requests <= 1

C16_Witness ==
    /\ gotTimeout
    /\ gotError
    /\ requests = 1

-----------------------------------------------------------------------------
(* Specification SpecTwo: two checkSSLCertificate calls in flight at the    *)
(* same time in one Node process.  Each call runs the code of lines 298-383 *)
(* on its own locals; the arrays live in the heap.                          *)

\* The certificates the two servers answer with: none, one in order, one not
\* yet valid for another name, one whose subject has several CNs.
TwoCerts ==
    {EmptyCert,
     [kind |-> "cert", validFrom |-> 0, validTo |-> MaxTime, hasSubject |-> TRUE,
      cn |-> Some(N_site), subjectaltname |-> None],
     [kind |-> "cert", validFrom |-> MaxTime, validTo |-> MaxTime,
      hasSubject |-> TRUE, cn |-> Some(N_other), subjectaltname |-> None],
     [kind |-> "cert", validFrom |-> 0, validTo |-> MaxTime, hasSubject |-> TRUE,
      cn |-> SeveralCNs, subjectaltname |-> None]}

TwoUrls ==
    {BadUrl,
     [valid |-> TRUE, protocol |-> "http:", hostname |-> N_site],
     [valid |-> TRUE, protocol |-> "https:", hostname |-> N_site]}

\* Faulty variant: one array at module level serves every call.
NewIssues_moduleLevel(top) == 1

\* Line 301: `const issues: string[] = []` allocates an array of the call.
NewIssues(top) == top + 1

\* resolve(value) of the promise of one call.
ResolveOf(c, isValid, at, aloneValid, aloneAt, shared, by) ==
    IF c.settled THEN c
    ELSE [c EXCEPT !.settled = TRUE,
                   !.result = [isValid |-> isValid, issues |-> at,
                               shared |-> shared, by |-> by],
                   !.alone = [isValid |-> aloneValid, issues |-> aloneAt,
                              shared |-> shared, by |-> by]]

InFlightOf(i) ==
    /\ calls[i].requests = 1
    /\ ~calls[i].gotResponse /\ ~calls[i].gotError /\ ~calls[i].destroyed

\* issues.push(...) of call i: the array is found through the local `issues`.
PushOf(i, pushed) == [heap EXCEPT ![calls[i].arr] = @ \o pushed]

\* Lines 298-318, 378-381, run by call i.
checkSSLCertificateOf(i, u) ==
    /\ ~processDown
    /\ calls[i].url = None
    /\ LET a == NewIssues(heapTop)
           c == [calls[i] EXCEPT !.url = Some(u), !.arr = a]
       IN  /\ heapTop' = heapTop + 1
           /\ IF ~u.valid
              THEN /\ heap' = [heap EXCEPT ![a] = <<>>]
                   /\ calls' = [calls EXCEPT ![i] =
                          ResolveOf(c, FALSE, <<Issue(CheckError, <<>>)>>,
                                    FALSE, <<Issue(CheckError, <<>>)>>,
                                    FALSE, "exception")]
              ELSE IF ~IsHttps(u)
              THEN /\ heap' = [heap EXCEPT ![a] = <<Issue(NotHttps, <<>>)>>]
                   /\ calls' = [calls EXCEPT ![i] =
                          ResolveOf([c EXCEPT !.own = <<Issue(NotHttps, <<>>)>>],
                                    FALSE, heap'[a],
                                    FALSE, <<Issue(NotHttps, <<>>)>>,
                                    TRUE, "nothttps")]
              ELSE /\ heap' = [heap EXCEPT ![a] = <<>>]
                   /\ calls' = [calls EXCEPT ![i] = [c EXCEPT !.requests = 1]]
    /\ UNCHANGED processDown
    /\ UNCHANGED notTwoVars

\* Lines 319-365, run by call i on the certificate c at time t.
RespondOf(i, c, t) ==
    LET k == [calls[i] EXCEPT !.gotResponse = TRUE]
    IN  /\ IF c.kind # "cert"
           THEN /\ heap' = PushOf(i, <<Issue(NoCertFound, <<>>)>>)
                /\ calls' = [calls EXCEPT ![i] =
                       LET own == Append(k.own, Issue(NoCertFound, <<>>))
                       IN  ResolveOf([k EXCEPT !.own = own],
                                     FALSE, heap'[k.arr], FALSE, own,
                                     TRUE, "nocert")]
                /\ UNCHANGED processDown
           ELSE IF CnThrows(c)
           THEN /\ heap' = PushOf(i, ExpiryIssues(c, t))
                /\ calls' = [calls EXCEPT ![i] =
                       [k EXCEPT !.own = @ \o ExpiryIssues(c, t), !.threw = TRUE]]
                /\ processDown' = TRUE
           ELSE /\ heap' = PushOf(i, ExpiryIssues(c, t)
                                     \o MismatchIssues(k.url[1].hostname, c))
                /\ calls' = [calls EXCEPT ![i] =
                       LET own == k.own \o ExpiryIssues(c, t)
                                        \o MismatchIssues(k.url[1].hostname, c)
                       IN  ResolveOf([k EXCEPT !.own = own],
                                     IsValid(heap'[k.arr]), heap'[k.arr],
                                     IsValid(own), own, TRUE, "evaluated")]
                /\ UNCHANGED processDown
        /\ UNCHANGED heapTop
        /\ UNCHANGED notTwoVars

OnResponseOf(i) ==
    /\ ~processDown
    /\ InFlightOf(i)
    /\ \E c \in TwoCerts : RespondOf(i, c, 1)

\* Lines 367-370, run by call i.
OnErrorOf(i) ==
    /\ ~processDown
    /\ calls[i].requests = 1 /\ ~calls[i].gotResponse /\ ~calls[i].gotError
    /\ \E m \in (IF calls[i].destroyed THEN {SocketHangUp}
                                       ELSE {"connect ECONNREFUSED"}) :
          /\ heap' = PushOf(i, <<Issue(ConnError, <<m>>)>>)
          /\ calls' = [calls EXCEPT ![i] =
                 LET own == Append(calls[i].own, Issue(ConnError, <<m>>))
                 IN  ResolveOf([calls[i] EXCEPT !.gotError = TRUE, !.own = own],
                               FALSE, heap'[calls[i].arr], FALSE, own,
                               TRUE, "error")]
    /\ UNCHANGED <<heapTop, processDown>>
    /\ UNCHANGED notTwoVars

\* Lines 372-376, run by call i.  The time the socket has been idle is not
\* followed here: the timeout may fire whenever the socket is still held.
OnTimeoutOf(i) ==
    /\ ~processDown
    /\ calls[i].requests = 1 /\ ~calls[i].gotError
    /\ ~calls[i].destroyed /\ ~calls[i].gotTimeout
    /\ heap' = PushOf(i, <<Issue(TimedOut, <<>>)>>)
    /\ calls' = [calls EXCEPT ![i] =
           LET own == Append(calls[i].own, Issue(TimedOut, <<>>))
           IN  ResolveOf([calls[i] EXCEPT !.gotTimeout = TRUE,
                                          !.destroyed = TRUE, !.own = own],
                         FALSE, heap'[calls[i].arr], FALSE, own,
                         TRUE, "timeout")]
    /\ UNCHANGED <<heapTop, processDown>>
    /\ UNCHANGED notTwoVars

InitTwo == TwoIdle /\ OthersIdleForTwo

NextTwo ==
    \/ \E i \in CallIds, u \in TwoUrls : checkSSLCertificateOf(i, u)
    \/ \E i \in CallIds : OnTimeoutOf(i)
    \/ \E i \in CallIds : OnErrorOf(i)
    \/ \E i \in CallIds : OnResponseOf(i)

SpecTwo == InitTwo /\ [][NextTwo]_vars

\* The array a call pushes to holds the issues of that call and no other.
OwnIssuesOnly ==
    \A i \in CallIds :
        calls[i].arr # 0 => heap[calls[i].arr] = calls[i].own

\* C17 (as claimed): two calls in flight do not affect each other: the array
\* of each call holds the issues of that call only, the value a call resolves
\* with is the value it resolves with when run alone, and no call is kept
\* from its result by what happens in the other call.
C17_ConcurrentCallsIndependent ==
    \A i \in CallIds :
        /\ calls[i].arr # 0 => heap[calls[i].arr] = calls[i].own
        /\ calls[i].settled => calls[i].result = calls[i].alone
        /\ (InFlightOf(i) /\ ~calls[i].threw) => ~processDown

-----------------------------------------------------------------------------
(* The HTTP server: values.                                                 *)

\* Bound: the number of requests one behaviour receives.
MaxRequests == 2

HttpPrefix == <<"h", "t", "t", "p", ":", "/", "/">>

HttpsPrefix == <<"h", "t", "t", "p", "s", ":", "/", "/">>

\* A host name with a top-level domain of two letters.
H_site == <<"a", ".", "b", "c">>

\* req.body.url: absent or empty, well formed with either scheme, without a
\* scheme, with a top-level domain of one letter, with a space in front,
\* with a space inside the host, with a path.
SrvUrls ==
    {<<>>,
     HttpsPrefix \o H_site,
     HttpPrefix \o H_site,
     H_site,
     HttpsPrefix \o N_site,
     <<" ">> \o HttpsPrefix \o H_site,
     HttpsPrefix \o <<"a", " ", "b", "c">>,
     HttpsPrefix \o H_site \o <<"/", "x">>}

\* Paths are spelled by segment: /api/check-url is <<"api", "check-url">>.
P_checkUrl == <<"api", "check-url">>

P_urlHistory == <<"api", "url-history">>

P_home == <<>>

P_checkPhone == <<"api", "check-phone">>

P_phoneHistory == <<"api", "phone-history">>

\* n times the character c.
Rep(c, n) == [i \in 1..n |-> c]

\* req.body.phoneNumber: absent or empty; with a + and ten or nine digits;
\* eleven digits after a 0; ten digits; ten digits after a 0 included; eleven
\* digits; twelve digits after a 0 included; nine digits; ten and eleven
\* digits with a separator; a + with spaces; a + after a space.
PhoneNumbers ==
    {<<>>,
     <<"+">> \o Rep("8", 10),
     <<"+">> \o Rep("8", 9),
     <<"0">> \o Rep("8", 10),
     Rep("8", 10),
     <<"0">> \o Rep("8", 9),
     Rep("8", 11),
     <<"0">> \o Rep("8", 11),
     Rep("8", 9),
     Rep("8", 3) \o <<"-">> \o Rep("8", 7),
     <<"0">> \o Rep("8", 3) \o <<" ">> \o Rep("8", 7),
     <<"+", "1", " ">> \o Rep("8", 10),
     <<" ", "+">> \o Rep("8", 10)}

\* The requests: those with a url in the body, those with a phoneNumber.
Requests ==
    [method : {"GET", "POST"}, path : {P_checkUrl, P_urlHistory, P_home},
     url : SrvUrls, phoneNumber : {<<>>}]
    \cup
    [method : {"GET", "POST"}, path : {P_checkPhone, P_phoneHistory},
     url : {<<>>}, phoneNumber : PhoneNumbers]

ApiKeys == {"key-1", "key-2"}

\* index.ts line 83: the key written into the source.
HardCodedKey == "key-in-source"

Envs == [VIRUSTOTAL_API_KEY : {None} \cup {Some(k) : k \in ApiKeys},
         VirusTotal_API : {None} \cup {Some(k) : k \in ApiKeys},
         ABSTRACT_API : {None, Some("key-3")}]

\* What the phone validation API answers: a status (0: no response) and,
\* with 200, a body; a field the body lacks reads "absent".
AbstractStatuses == {200, 429, 0}

AbstractData ==
    {None} \cup {Some(d) : d \in [valid : {"true", "false", "absent"},
                                  type : {"mobile", "voip", "absent"}]}

\* What VirusTotal answers to one request: 200, an error status, or nothing
\* (0: the request fails without a response).
VtOutcomes == {200, 401, 429, 0}

\* What checkSSLCertificate resolves with, as the handler sees it.
SslResults ==
    {[isValid |-> TRUE, issues |-> <<>>],
     [isValid |-> FALSE, issues |-> <<Issue(Expired, <<0, 0>>)>>],
     [isValid |-> FALSE, issues |-> <<Issue(TimedOut, <<>>)>>]}

\* data.attributes.stats of an analysis report.
VtStats == [malicious : 0..1, suspicious : 0..1, total : {2}]

RECURSIVE trimStart(_)
trimStart(str) ==
    IF str # <<>> /\ Head(str) = " " THEN trimStart(Tail(str)) ELSE str

RECURSIVE trimEnd(_)
trimEnd(str) ==
    IF str # <<>> /\ str[Len(str)] = " "
    THEN trimEnd(SubSeq(str, 1, Len(str) - 1)) ELSE str

trim(str) == trimEnd(trimStart(str))

AsciiLetters ==
    {"a", "b", "c", "d", "e", "f", "g", "h", "i", "j", "k", "l", "m", "n", "o",
     "p", "q", "r", "s", "t", "u", "v", "w", "x", "y", "z", "A", "B", "C", "D",
     "E", "F", "G", "H", "I", "J", "K", "L", "M", "N", "O", "P", "Q", "R", "S",
     "T", "U", "V", "W", "X", "Y", "Z"}

AsciiDigits == {"0", "1", "2", "3", "4", "5", "6", "7", "8", "9"}

\* The part of a URL after its scheme prefix p, up to the first "/".
HostPart(u, p) ==
    LET rest == SubSeq(u, Len(p) + 1, Len(u))
        cut == {i \in 1..Len(rest) : rest[i] = "/"}
    IN  IF cut = {} THEN rest
        ELSE SubSeq(rest, 1, (CHOOSE i \in cut : \A j \in cut : i <= j) - 1)

\* `new URL(u)` does not throw: u has a scheme, and a host that is not empty
\* and holds no forbidden code point (here: the space).
ParsesAsUrl(u) ==
    \E p \in {HttpPrefix, HttpsPrefix} :
        /\ startsWith(u, p)
        /\ HostPart(u, p) # <<>>
        /\ \A i \in 1..Len(HostPart(u, p)) : HostPart(u, p)[i] # " "

\* routes, line 24: /^(http|https):\/\/[a-zA-Z0-9-_.]+\.[a-zA-Z]{2,}(\/.*)?$/
MatchesUrlPattern(u) ==
    \E p \in {HttpPrefix, HttpsPrefix} :
        /\ startsWith(u, p)
        /\ LET host == HostPart(u, p)
           IN  \E d \in 2..(Len(host) - 2) :
                   /\ host[d] = "."
                   /\ \A i \in 1..(d - 1) :
                          host[i] \in AsciiLetters \cup AsciiDigits \cup {"-", "_", "."}
                   /\ \A i \in (d + 1)..Len(host) : host[i] \in AsciiLetters

\* storage.getRecentUrlChecks(n): the n newest records, newest first.
RECURSIVE Reverse(_)
Reverse(q) == IF q = <<>> THEN <<>> ELSE Append(Reverse(Tail(q)), Head(q))

getRecentUrlChecks(n) ==
    LET all == Reverse(stored)
    IN  IF Len(all) <= n THEN all ELSE SubSeq(all, 1, n)

Reply(status, body) == Some([status |-> status, body |-> body])

-----------------------------------------------------------------------------
(* The handler of POST /check-phone and the history routes of the router.  *)

\* phoneNumber.replace(/\D/g, ''): the digits of the text, in order.
RECURSIVE digitsOf(_)
digitsOf(str) ==
    IF str = <<>> THEN <<>>
    ELSE IF Head(str) \in AsciiDigits THEN <<Head(str)>> \o digitsOf(Tail(str))
    ELSE digitsOf(Tail(str))

\* routes, line 151: the fewest digits of a phone number.
MinDigits == 10

\* Faulty variant: nine digits are enough.
TooShort_nine(cleaned) == Len(cleaned) < MinDigits - 1

\* routes, line 151.
TooShort(cleaned) == Len(cleaned) < MinDigits

\* Faulty variant: every number without a + gets the generic prefix.
formatNumber_generic(phoneNumber) ==
    IF startsWith(phoneNumber, <<"+">>) THEN phoneNumber
    ELSE <<"+">> \o digitsOf(phoneNumber)

\* routes, lines 162-177: the number in international form.
formatNumber(phoneNumber) ==
    LET cleaned == digitsOf(phoneNumber)
    IN  IF startsWith(phoneNumber, <<"+">>) THEN phoneNumber
        ELSE IF startsWith(cleaned, <<"0">>) /\ Len(cleaned) = 11
        THEN <<"+", "2", "3", "4">> \o SubSeq(cleaned, 2, Len(cleaned))
        ELSE IF Len(cleaned) = 10 /\ ~startsWith(cleaned, <<"0">>)
        THEN <<"+", "1">> \o cleaned
        ELSE <<"+">> \o cleaned

\* encodeURIComponent on the characters a phone number is written with:
\* digits and - ( ) stay, + and the space are escaped.
RECURSIVE encodeURIComponent(_)
encodeURIComponent(str) ==
    IF str = <<>> THEN <<>>
    ELSE (CASE Head(str) = "+" -> <<"%", "2", "B">>
            [] Head(str) = " " -> <<"%", "2", "0">>
            [] OTHER -> <<Head(str)>>)
         \o encodeURIComponent(Tail(str))

\* The value of a query parameter as the called service reads it: an escape
\* is the character it stands for, a bare + is a space.
RECURSIVE decodeQueryValue(_)
decodeQueryValue(str) ==
    IF str = <<>> THEN <<>>
    ELSE IF Head(str) = "%" /\ Len(str) >= 3
    THEN (CASE SubSeq(str, 2, 3) = <<"2", "B">> -> <<"+">>
            [] SubSeq(str, 2, 3) = <<"2", "0">> -> <<" ">>
            [] OTHER -> SubSeq(str, 1, 3))
         \o decodeQueryValue(SubSeq(str, 4, Len(str)))
    ELSE IF Head(str) = "+" THEN <<" ">> \o decodeQueryValue(Tail(str))
    ELSE <<Head(str)>> \o decodeQueryValue(Tail(str))

\* Faulty variant: a VOIP line weighs as much as an invalid number.
riskScoreOf_voipHeavy(data) ==
    LET invalid == IF data.valid # "true" THEN 70 ELSE 0
        voip == IF data.type = "voip" THEN 70 ELSE 0
    IN  IF invalid + voip <= 100 THEN invalid + voip ELSE 100

\* routes, lines 194-204 (PhoneChecker, lines 644-651): the risk score.
riskScoreOf(data) ==
    LET invalid == IF data.valid # "true" THEN 70 ELSE 0
        voip == IF data.type = "voip" THEN 30 ELSE 0
    IN  IF invalid + voip <= 100 THEN invalid + voip ELSE 100

\* The locals of the handler of /check-phone before it has run.
NoPhoneLocals ==
    [formattedNumber |-> <<>>, data |-> None, riskScore |-> 0, isSafe |-> FALSE,
     lineType |-> ""]

\* storage.getRecentPhoneChecks(n): the n newest records, newest first.
getRecentPhoneChecks(n) ==
    LET all == Reverse(phoneStored)
    IN  IF Len(all) <= n THEN all ELSE SubSeq(all, 1, n)

\* routes, lines 248-261: the answer when a step of the phone check failed.
PhoneFailure(status) ==
    /\ response' = Reply(IF status # 0 THEN status ELSE 500, "error")
    /\ steps' = Append(steps, "respond")
    /\ pc' = "done"

\* routes, lines 141-187: up to the call of the validation API.
PhoneStart ==
    /\ handler = "phone" /\ pc = "start"
    /\ LET phoneNumber == request[1].phoneNumber
           cleaned == digitsOf(phoneNumber)
           formattedNumber == formatNumber(phoneNumber)
       IN  IF phoneNumber = <<>> \/ TooShort(cleaned)
           THEN /\ response' = Reply(400, "error")
                /\ steps' = Append(steps, "respond")
                /\ pc' = "done"
                /\ UNCHANGED <<locals, vtCalls>>
           ELSE IF env.ABSTRACT_API = None
           THEN /\ response' = Reply(500, "error")
                /\ steps' = Append(steps, "respond")
                /\ pc' = "done"
                /\ UNCHANGED <<locals, vtCalls>>
           ELSE /\ locals' = [NoPhoneLocals EXCEPT !.formattedNumber = formattedNumber]
                /\ vtCalls' = Append(vtCalls,
                                     [call |-> "validate",
                                      apikey |-> env.ABSTRACT_API,
                                      phone |-> encodeURIComponent(formattedNumber)])
                /\ pc' = "validate"
                /\ UNCHANGED <<response, steps>>
    /\ UNCHANGED <<env, request, served, layer, logged, handler, stored>>
    /\ UNCHANGED phoneStored
    /\ UNCHANGED notSrvPhoneSrvVars

\* routes, lines 187-237: the validation API has answered.
PhoneOnValidated(status, data) ==
    /\ handler = "phone" /\ pc = "validate"
    /\ IF status # 200 \/ data = None
       THEN /\ PhoneFailure(IF status = 200 THEN 0 ELSE status)
            /\ UNCHANGED locals
       ELSE LET riskScore == riskScoreOf(data[1])
            IN  /\ locals' = [locals EXCEPT
                       !.data = data,
                       !.riskScore = riskScore,
                       !.isSafe = (riskScore < 50),
                       !.lineType = IF data[1].type = "absent" THEN "Unknown"
                                    ELSE data[1].type]
                /\ steps' = Append(steps, "validated")
                /\ pc' = "create"
                /\ UNCHANGED response
    /\ UNCHANGED <<env, request, served, layer, logged, handler, vtCalls, stored>>
    /\ UNCHANGED phoneStored
    /\ UNCHANGED notSrvPhoneSrvVars

\* routes, line 238; storage, lines 74-87: storage.createPhoneCheck has
\* settled; a risk score of 0 is stored as null.
PhoneOnCreated(ok) ==
    /\ handler = "phone" /\ pc = "create"
    /\ IF ok
       THEN /\ phoneStored' =
                Append(phoneStored,
                       [phoneNumber |-> locals.formattedNumber,
                        isSafe |-> locals.isSafe,
                        lineType |-> locals.lineType,
                        riskScore |-> IF locals.riskScore = 0 THEN None
                                      ELSE Some(locals.riskScore)])
            /\ steps' = Append(steps, "persist")
            /\ pc' = "recent"
            /\ UNCHANGED response
       ELSE /\ PhoneFailure(0)
            /\ UNCHANGED phoneStored
    /\ UNCHANGED <<env, request, served, layer, logged, handler, locals, vtCalls,
                   stored>>
    /\ UNCHANGED notSrvPhoneSrvVars

\* routes, lines 241-247: storage.getRecentPhoneChecks(10) has settled.
PhoneOnRecent(ok) ==
    /\ handler = "phone" /\ pc = "recent"
    /\ IF ok
       THEN /\ response' = Reply(200, [phoneNumber |-> locals.formattedNumber,
                                       lineType |-> locals.lineType,
                                       riskScore |-> locals.riskScore,
                                       isSafe |-> locals.isSafe,
                                       history |-> getRecentPhoneChecks(10)])
            /\ steps' = Append(steps, "respond")
            /\ pc' = "done"
       ELSE PhoneFailure(0)
    /\ UNCHANGED <<env, request, served, layer, logged, handler, locals, vtCalls,
                   stored>>
    /\ UNCHANGED phoneStored
    /\ UNCHANGED notSrvPhoneSrvVars

\* routes, lines 280-288: GET /phone-history.
PhoneHistory(ok) ==
    /\ handler = "phoneHistory" /\ pc = "start"
    /\ response' = IF ok THEN Reply(200, getRecentPhoneChecks(10))
                   ELSE Reply(500, "error")
    /\ steps' = Append(steps, "respond")
    /\ pc' = "done"
    /\ UNCHANGED <<env, request, served, layer, logged, handler, locals, vtCalls,
                   stored>>
    /\ UNCHANGED phoneStored
    /\ UNCHANGED notSrvPhoneSrvVars

-----------------------------------------------------------------------------
(* Specification SpecApp: the Express application of index.ts.  A request   *)
(* walks the stack of the app in the order of registration: the route of    *)
(* line 86, the logging middleware of line 202, the router mounted at /api  *)
(* by registerRoutes (line 230; routes, line 291), then the static files.   *)

Stack == <<"index:POST /api/check-url", "logger", "router:/api", "static">>

\* The routes of the router, in the order of registration (routes, lines
\* 15, 141, 269, 280), with the handler each one leads to.
RouterRoutes ==
    <<[method |-> "POST", path |-> <<"check-url">>, handler |-> "router"],
      [method |-> "POST", path |-> <<"check-phone">>, handler |-> "phone"],
      [method |-> "GET", path |-> <<"url-history">>, handler |-> "history"],
      [method |-> "GET", path |-> <<"phone-history">>, handler |-> "phoneHistory"]>>

\* The first route of the router that matches, 0 when none does.
RouterMatch(method, path) ==
    LET hits == {i \in 1..Len(RouterRoutes) :
                    /\ RouterRoutes[i].method = method
                    /\ RouterRoutes[i].path = path}
    IN  IF hits = {} THEN 0 ELSE CHOOSE i \in hits : \A j \in hits : i <= j

\* A request arrives at the app.
Receive(r) ==
    /\ pc \in {"idle", "done"}
    /\ served < MaxRequests
    /\ served' = served + 1
    /\ request' = Some(r)
    /\ layer' = 1
    /\ logged' = FALSE
    /\ handler' = "none"
    /\ pc' = "dispatch"
    /\ locals' = NoLocals
    /\ vtCalls' = <<>>
    /\ steps' = <<>>
    /\ response' = None
    /\ UNCHANGED <<env, stored>>
    /\ UNCHANGED notSrvVars

\* The request is offered to the layer it stands at: a layer that matches
\* takes it, a middleware passes it on with next().
RunLayer ==
    /\ pc = "dispatch"
    /\ LET r == request[1]
           kind == Stack[layer]
       IN  CASE kind = "index:POST /api/check-url" ->
                    IF r.method = "POST" /\ r.path = P_checkUrl
                    THEN /\ handler' = "index"
                         /\ pc' = "start"
                         /\ UNCHANGED <<layer, logged, response, steps>>
                    ELSE /\ layer' = layer + 1
                         /\ UNCHANGED <<handler, pc, logged, response, steps>>
              [] kind = "logger" ->
                    /\ logged' = TRUE
                    /\ layer' = layer + 1
                    /\ UNCHANGED <<handler, pc, response, steps>>
              [] kind = "router:/api" ->
                    IF r.path # <<>> /\ Head(r.path) = "api"
                       /\ RouterMatch(r.method, Tail(r.path)) # 0
                    THEN /\ handler' =
                             RouterRoutes[RouterMatch(r.method, Tail(r.path))].handler
                         /\ pc' = "start"
                         /\ UNCHANGED <<layer, logged, response, steps>>
                    ELSE /\ layer' = layer + 1
                         /\ UNCHANGED <<handler, pc, logged, response, steps>>
              [] kind = "static" ->
                    /\ handler' = "static"
                    /\ pc' = "done"
                    /\ response' = Reply(200, "page")
                    /\ steps' = Append(steps, "respond")
                    /\ UNCHANGED <<layer, logged>>
    /\ UNCHANGED <<env, request, served, locals, vtCalls, stored>>
    /\ UNCHANGED notSrvVars

\* index.ts line 83.
VIRUSTOTAL_API_KEY ==
    IF IsSome(env.VIRUSTOTAL_API_KEY) THEN env.VIRUSTOTAL_API_KEY
    ELSE Some(HardCodedKey)

\* index.ts lines 95-100.
ProcessedUrl(url) ==
    IF ~startsWith(trim(url), HttpPrefix) /\ ~startsWith(trim(url), HttpsPrefix)
    THEN HttpPrefix \o trim(url)
    ELSE trim(url)

\* index.ts lines 188-198: the answer to a failed VirusTotal request.
IndexFailure(status) ==
    /\ response' = Reply(IF status \in {401, 429} THEN status ELSE 500, "error")
    /\ steps' = Append(steps, "respond")
    /\ pc' = "done"

\* index.ts lines 86-120: up to the submission of the URL.
IndexStart ==
    /\ handler = "index" /\ pc = "start"
    /\ LET url == request[1].url
       IN  IF url = <<>> \/ ~ParsesAsUrl(ProcessedUrl(url))
           THEN /\ response' = Reply(400, "error")
                /\ steps' = Append(steps, "respond")
                /\ pc' = "done"
                /\ UNCHANGED <<locals, vtCalls>>
           ELSE /\ locals' = [locals EXCEPT !.url = ProcessedUrl(url)]
                /\ vtCalls' = Append(vtCalls, [call |-> "submit",
                                               apikey |-> VIRUSTOTAL_API_KEY])
                /\ pc' = "submit"
                /\ UNCHANGED <<response, steps>>
    /\ UNCHANGED <<env, request, served, layer, logged, handler, stored>>
    /\ UNCHANGED notSrvVars

\* index.ts lines 121-134: the submission is answered.
IndexOnSubmit(status) ==
    /\ handler = "index" /\ pc = "submit"
    /\ IF status = 200
       THEN /\ vtCalls' = Append(vtCalls, [call |-> "report",
                                           apikey |-> VIRUSTOTAL_API_KEY])
            /\ pc' = "report"
            /\ UNCHANGED <<response, steps>>
       ELSE /\ IndexFailure(status)
            /\ UNCHANGED vtCalls
    /\ UNCHANGED <<env, request, served, layer, logged, handler, locals, stored>>
    /\ UNCHANGED notSrvVars

\* index.ts lines 136-187: the report is answered; the handler responds.
\* riskScore = malicious / total * 100 + suspicious / total * 50.
IndexOnReport(status, stats) ==
    /\ handler = "index" /\ pc = "report"
    /\ IF status = 200
       THEN LET riskScore == (stats.malicious * 100) \div stats.total
                             + (stats.suspicious * 50) \div stats.total
            IN  /\ locals' = [locals EXCEPT !.isSafe = riskScore < 50]
                /\ response' = Reply(200, "result")
                /\ steps' = steps \o <<"reputation", "respond">>
                /\ pc' = "done"
       ELSE /\ IndexFailure(status)
            /\ UNCHANGED locals
    /\ UNCHANGED <<env, request, served, layer, logged, handler, vtCalls, stored>>
    /\ UNCHANGED notSrvVars

\* routes, lines 269-277: GET /url-history.
UrlHistory(ok) ==
    /\ handler = "history" /\ pc = "start"
    /\ response' = IF ok THEN Reply(200, getRecentUrlChecks(10))
                   ELSE Reply(500, "error")
    /\ steps' = Append(steps, "respond")
    /\ pc' = "done"
    /\ UNCHANGED <<env, request, served, layer, logged, handler, locals, vtCalls,
                   stored>>
    /\ UNCHANGED notSrvVars

InitApp == env \in Envs /\ SrvQuiet /\ OthersIdleForSrv

NextApp ==
    \/ \E r \in Requests : Receive(r)
    \/ RunLayer
    \/ IndexStart
    \/ \E status \in VtOutcomes : IndexOnSubmit(status)
    \/ \E status \in VtOutcomes, stats \in VtStats : IndexOnReport(status, stats)
    \/ \E ok \in BOOLEAN : UrlHistory(ok)
    \/ PhoneStart
    \/ \E status \in AbstractStatuses, data \in AbstractData :
           PhoneOnValidated(status, data)
    \/ \E ok \in BOOLEAN : PhoneOnCreated(ok)
    \/ \E ok \in BOOLEAN : PhoneOnRecent(ok)
    \/ \E ok \in BOOLEAN : PhoneHistory(ok)

SpecApp == InitApp /\ [][NextApp]_vars

\* The handler of the router for POST /check-url is never given a request of
\* the app: the route of index.ts stands before the router in the stack.
RouterCheckUrlShadowed == handler # "router"

\* a comes before b in the steps taken for the request.
Before(a, b) ==
    \E i, j \in 1..Len(steps) : i < j /\ steps[i] = a /\ steps[j] = b

\* The request is a POST /api/check-url that has been answered with a result.
CheckUrlAnswered ==
    /\ IsSome(request) /\ IsSome(response)
    /\ request[1].method = "POST"
    /\ request[1].path = P_checkUrl
    /\ response[1].status = 200

\* C18 (as claimed): a POST /api/check-url with a valid https URL whose
\* reputation lookup succeeds is answered only after the report was obtained,
\* then the certificate check was run, then the record was persisted, in
\* this order; a URL that does not start with https:// is never given to the
\* certificate check.
C18_ReputationThenCertificateThenPersist ==
    CheckUrlAnswered =>
        /\ (startsWith(request[1].url, HttpsPrefix)
            /\ MatchesUrlPattern(request[1].url)) =>
               /\ Before("reputation", "certificate")
               /\ Before("certificate", "persist")
               /\ Before("persist", "respond")
        /\ ~startsWith(request[1].url, HttpsPrefix) =>
               \A i \in 1..Len(steps) : steps[i] # "certificate"

-----------------------------------------------------------------------------
(* Specification SpecRouter: the router of registerRoutes given a request,  *)
(* as Express gives it to the router when no earlier layer has taken it.    *)

\* The router looks for its first matching route (routes, line 291).
RouterDispatch ==
    /\ pc = "dispatch"
    /\ LET r == request[1]
       IN  IF r.path # <<>> /\ Head(r.path) = "api"
              /\ RouterMatch(r.method, Tail(r.path)) # 0
           THEN /\ handler' =
                    RouterRoutes[RouterMatch(r.method, Tail(r.path))].handler
                /\ pc' = "start"
                /\ UNCHANGED <<response, steps>>
           ELSE /\ handler' = "static"
                /\ pc' = "done"
                /\ response' = Reply(200, "page")
                /\ steps' = Append(steps, "respond")
    /\ logged' = TRUE
    /\ layer' = 3
    /\ UNCHANGED <<env, request, served, locals, vtCalls, stored>>
    /\ UNCHANGED notSrvVars

\* routes, line 29.
apiKey ==
    IF IsSome(env.VIRUSTOTAL_API_KEY) THEN env.VIRUSTOTAL_API_KEY
    ELSE env.VirusTotal_API

\* routes, lines 120-133: the answer when a step of the check has failed.
RouterFailure(status) ==
    /\ response' = Reply(IF status # 0 THEN status ELSE 500, "error")
    /\ steps' = Append(steps, "respond")
    /\ pc' = "done"

\* routes, lines 15-46: up to the submission of the URL.
RouterStart ==
    /\ handler = "router" /\ pc = "start"
    /\ LET url == request[1].url
       IN  IF url = <<>> \/ ~MatchesUrlPattern(url)
           THEN /\ response' = Reply(400, "error")
                /\ steps' = Append(steps, "respond")
                /\ pc' = "done"
                /\ UNCHANGED <<locals, vtCalls>>
           ELSE IF apiKey = None
           THEN /\ response' = Reply(500, "error")
                /\ steps' = Append(steps, "respond")
                /\ pc' = "done"
                /\ UNCHANGED <<locals, vtCalls>>
           ELSE /\ locals' = [locals EXCEPT !.url = url]
                /\ vtCalls' = Append(vtCalls, [call |-> "submit", apikey |-> apiKey])
                /\ pc' = "submit"
                /\ UNCHANGED <<response, steps>>
    /\ UNCHANGED <<env, request, served, layer, logged, handler, stored>>
    /\ UNCHANGED notSrvVars

\* routes, lines 49-59: the submission is answered; the report is asked for
\* with the header 'x-apikey': process.env.VirusTotal_API.
RouterOnSubmit(status) ==
    /\ handler = "router" /\ pc = "submit"
    /\ IF status = 200
       THEN /\ vtCalls' = Append(vtCalls, [call |-> "report",
                                           apikey |-> env.VirusTotal_API])
            /\ pc' = "report"
            /\ UNCHANGED <<response, steps>>
       ELSE /\ RouterFailure(status)
            /\ UNCHANGED vtCalls
    /\ UNCHANGED <<env, request, served, layer, logged, handler, locals, stored>>
    /\ UNCHANGED notSrvVars

\* routes, lines 62-78: the report is answered; for an https URL the
\* certificate check is called, else the record goes to the storage.
RouterOnReport(status, stats) ==
    /\ handler = "router" /\ pc = "report"
    /\ IF status = 200
       THEN LET isSafe == stats.malicious = 0 /\ stats.suspicious = 0
            IN  /\ locals' = [locals EXCEPT
                       !.stats = Some(stats),
                       !.isSafe = isSafe,
                       !.text = IF isSafe THEN "No threats detected"
                                ELSE "Detected as malicious"]
                /\ IF startsWith(locals.url, HttpsPrefix)
                   THEN /\ steps' = steps \o <<"reputation", "certificate">>
                        /\ pc' = "certificate"
                   ELSE /\ steps' = Append(steps, "reputation")
                        /\ pc' = "create"
                /\ UNCHANGED response
       ELSE /\ RouterFailure(status)
            /\ UNCHANGED locals
    /\ UNCHANGED <<env, request, served, layer, logged, handler, vtCalls, stored>>
    /\ UNCHANGED notSrvVars

SslWarning == "No malware detected, but SSL certificate has issues"

\* Faulty variant: a certificate with issues makes the URL unsafe.
RouterOnCertificate_unsafe(res) ==
    /\ handler = "router" /\ pc = "certificate"
    /\ locals' = IF res.isValid THEN [locals EXCEPT !.sslCheck = Some(res)]
                 ELSE [locals EXCEPT
                          !.sslCheck = Some(res),
                          !.isSafe = FALSE,
                          !.hasSslIssues = TRUE,
                          !.sslIssues = res.issues,
                          !.text = IF locals.isSafe THEN SslWarning ELSE @]
    /\ pc' = "create"
    /\ UNCHANGED <<env, request, served, layer, logged, handler, vtCalls, steps,
                   stored, response>>
    /\ UNCHANGED notSrvVars

\* routes, line 78: the handler awaits checkSSLCertificate, whose response
\* callback throws on a certificate with several common names (lines 322-332,
\* SeveralCNs): the promise is never settled and the exception, which nothing
\* catches, ends the process with the request unanswered.
RouterCertificateCrashes ==
    /\ handler = "router" /\ pc = "certificate"
    /\ pc' = "down"
    /\ UNCHANGED <<env, request, served, layer, logged, handler, locals, vtCalls,
                   steps, stored, response>>
    /\ UNCHANGED notSrvVars

\* routes, lines 78-106: checkSSLCertificate has resolved with res.
RouterOnCertificate(res) ==
    /\ handler = "router" /\ pc = "certificate"
    /\ locals' = IF res.isValid THEN [locals EXCEPT !.sslCheck = Some(res)]
                 ELSE [locals EXCEPT
                          !.sslCheck = Some(res),
                          !.hasSslIssues = TRUE,
                          !.sslIssues = res.issues,
                          !.text = IF locals.isSafe THEN SslWarning ELSE @]
    /\ pc' = "create"
    /\ UNCHANGED <<env, request, served, layer, logged, handler, vtCalls, steps,
                   stored, response>>
    /\ UNCHANGED notSrvVars

\* routes, lines 106-109: storage.createUrlCheck has settled.
RouterOnCreated(ok) ==
    /\ handler = "router" /\ pc = "create"
    /\ IF ok
       THEN /\ stored' = Append(stored, [url |-> locals.url,
                                         isSafe |-> locals.isSafe,
                                         text |-> locals.text])
            /\ steps' = Append(steps, "persist")
            /\ pc' = "recent"
            /\ UNCHANGED response
       ELSE /\ RouterFailure(0)
            /\ UNCHANGED stored
    /\ UNCHANGED <<env, request, served, layer, logged, handler, locals, vtCalls>>
    /\ UNCHANGED notSrvVars

\* routes, lines 109-118: storage.getRecentUrlChecks(10) has settled.
RouterOnRecent(ok) ==
    /\ handler = "router" /\ pc = "recent"
    /\ IF ok
       THEN /\ response' = Reply(200, [isSafe |-> locals.isSafe,
                                       text |-> locals.text,
                                       hasSslIssues |-> locals.hasSslIssues,
                                       sslIssues |-> locals.sslIssues,
                                       history |-> getRecentUrlChecks(10)])
            /\ steps' = Append(steps, "respond")
            /\ pc' = "done"
       ELSE RouterFailure(0)
    /\ UNCHANGED <<env, request, served, layer, logged, handler, locals, vtCalls,
                   stored>>
    /\ UNCHANGED notSrvVars

InitRouter == env \in Envs /\ SrvQuiet /\ OthersIdleForSrv

NextRouter ==
    \/ \E r \in Requests : Receive(r)
    \/ RouterDispatch
    \/ RouterStart
    \/ \E status \in VtOutcomes : RouterOnSubmit(status)
    \/ \E status \in VtOutcomes, stats \in VtStats : RouterOnReport(status, stats)
    \/ \E res \in SslResults : RouterOnCertificate(res)
    \/ RouterCertificateCrashes
    \/ \E ok \in BOOLEAN : RouterOnCreated(ok)
    \/ \E ok \in BOOLEAN : RouterOnRecent(ok)
    \/ \E ok \in BOOLEAN : UrlHistory(ok)
    \/ PhoneStart
    \/ \E status \in AbstractStatuses, data \in AbstractData :
           PhoneOnValidated(status, data)
    \/ \E ok \in BOOLEAN : PhoneOnCreated(ok)
    \/ \E ok \in BOOLEAN : PhoneOnRecent(ok)
    \/ \E ok \in BOOLEAN : PhoneHistory(ok)

SpecRouter == InitRouter /\ [][NextRouter]_vars

\* C19 (as claimed): with VIRUSTOTAL_API_KEY the only key variable set, every
\* request the router handler sends to VirusTotal carries that key.
C19_RouterSendsConfiguredKey ==
    (handler = "router" /\ IsSome(env.VIRUSTOTAL_API_KEY)
     /\ env.VirusTotal_API = None) =>
        \A i \in 1..Len(vtCalls) : vtCalls[i].apikey = env.VIRUSTOTAL_API_KEY

\* The verdict of the reputation report alone (routes, line 66).
ReportVerdict == locals.stats[1].malicious = 0 /\ locals.stats[1].suspicious = 0

\* The text for the verdict of the report alone (routes, lines 67-69).
ReportText == IF ReportVerdict THEN "No threats detected" ELSE "Detected as malicious"

\* The router handler of POST /check-url has got past the certificate check.
PastCertificate ==
    /\ handler = "router"
    /\ IsSome(locals.stats)
    /\ pc \in {"create", "recent", "done"}

\* C22: in the router handler of POST /check-url the certificate check does
\* not change the verdict: isSafe, as persisted and as returned, is
\* (malicious = 0 and suspicious = 0) of the report; a certificate with issues
\* sets hasSslIssues and sslIssues and, for a safe URL, puts the SSL warning
\* in the place of the result text.
C22_CertificateCheckKeepsVerdict ==
    PastCertificate =>
        LET invalid == IsSome(locals.sslCheck) /\ ~locals.sslCheck[1].isValid
            text == IF invalid /\ ReportVerdict THEN SslWarning ELSE ReportText
        IN  /\ locals.isSafe = ReportVerdict
            /\ locals.hasSslIssues = invalid
            /\ locals.sslIssues = (IF invalid THEN locals.sslCheck[1].issues ELSE <<>>)
            /\ locals.text = text
            /\ (pc \in {"recent", "done"} /\ Before("persist", "respond")) =>
                   /\ stored[Len(stored)].isSafe = ReportVerdict
                   /\ stored[Len(stored)].text = text
            /\ (IsSome(response) /\ response[1].status = 200) =>
                   /\ response[1].body.isSafe = ReportVerdict
                   /\ response[1].body.text = text
                   /\ response[1].body.hasSslIssues = invalid

\* A safe URL whose certificate has issues has been persisted and answered.
C22_Witness ==
    /\ PastCertificate
    /\ ReportVerdict
    /\ IsSome(locals.sslCheck) /\ ~locals.sslCheck[1].isValid
    /\ IsSome(response) /\ response[1].status = 200
    /\ response[1].body.isSafe = TRUE
    /\ response[1].body.text = SslWarning
    /\ stored[Len(stored)].isSafe = TRUE

\* The status the validation of the handler gives the request, 0 when the
\* request passes it: 400 for a missing url or phoneNumber, for a URL that
\* does not match the pattern and for a phone number of fewer than 10
\* digits, 500 for a missing API key.
ValidationStatus ==
    IF handler = "router"
    THEN IF request[1].url = <<>> \/ ~MatchesUrlPattern(request[1].url) THEN 400
         ELSE IF env.VIRUSTOTAL_API_KEY = None /\ env.VirusTotal_API = None THEN 500
         ELSE 0
    ELSE IF handler = "phone"
    THEN IF request[1].phoneNumber = <<>> THEN 400
         ELSE IF Len(digitsOf(request[1].phoneNumber)) < MinDigits THEN 400
         ELSE IF env.ABSTRACT_API = None THEN 500
         ELSE 0
    ELSE 0

\* A request that fails validation has been answered with the error status,
\* with no call of an outside API and no other step taken for it.
FailedValidationAnswered ==
    (handler \in {"router", "phone"} /\ ValidationStatus # 0) =>
        /\ pc \in {"start", "done"}
        /\ vtCalls = <<>>
        /\ \A i \in 1..Len(steps) : steps[i] = "respond"
        /\ pc = "done" => response = Reply(ValidationStatus, "error")

\* A step taken for a request that fails validation persists nothing.
FailedValidationPersistsNothing ==
    (handler' \in {"router", "phone"} /\ ValidationStatus' # 0) =>
        /\ stored' = stored
        /\ phoneStored' = phoneStored

\* C23: a request that fails validation is answered with an error status and
\* has no other effect: 400 for a missing url or phoneNumber, a URL that does
\* not match the pattern, a phone number of fewer than 10 digits; 500 for a
\* missing API key; no outside API is called, no certificate is checked, no
\* record is persisted.
C23_ValidationFailureHasNoEffect ==
    [](FailedValidationAnswered) /\ [][FailedValidationPersistsNothing]_vars

\* A phone number of too few digits has been refused after another phone
\* check had been persisted.
C23_Witness ==
    /\ handler = "phone" /\ pc = "done"
    /\ request[1].phoneNumber # <<>>
    /\ ValidationStatus = 400
    /\ response = Reply(400, "error")
    /\ phoneStored # <<>>

\* The normalised form of a phone number, as claimed.
Normalised(phoneNumber) ==
    LET d == digitsOf(phoneNumber)
    IN  IF Head(phoneNumber) = "+" THEN phoneNumber
        ELSE IF Head(d) = "0" /\ Len(d) = 11 THEN <<"+", "2", "3", "4">> \o Tail(d)
        ELSE IF Len(d) = 10 /\ Head(d) # "0" THEN <<"+", "1">> \o d
        ELSE <<"+">> \o d

\* The handler of /check-phone has called the validation API.
PhoneCalled == handler = "phone" /\ vtCalls # <<>>

\* The handler of /check-phone has persisted the record of this request.
PhonePersisted ==
    /\ handler = "phone"
    /\ \E i \in 1..Len(steps) : steps[i] = "persist"

\* C24: /check-phone normalises the number: with a + in front it is left as
\* it is; else, with d its digits, 11 digits after a 0 give +234 and d
\* without the 0, 10 digits not after a 0 give +1 and d, anything else gives
\* + and d; the normalised number is the one sent to the validation API,
\* the one persisted and the one returned.
C24_NormalisedNumberEverywhere ==
    LET expected == Normalised(request[1].phoneNumber)
    IN  /\ PhoneCalled =>
               /\ Len(vtCalls) = 1
               /\ decodeQueryValue(vtCalls[1].phone) = expected
        /\ PhonePersisted =>
               phoneStored[Len(phoneStored)].phoneNumber = expected
        /\ (PhoneCalled /\ IsSome(response) /\ response[1].status = 200) =>
               response[1].body.phoneNumber = expected

\* A number of 11 digits after a 0 has been sent, persisted and returned.
C24_Witness ==
    /\ PhoneCalled /\ PhonePersisted
    /\ IsSome(response) /\ response[1].status = 200
    /\ ~startsWith(request[1].phoneNumber, <<"+">>)
    /\ startsWith(response[1].body.phoneNumber, <<"+", "2", "3", "4">>)

\* The handler of /check-phone has got a body from the validation API.
PhoneScored == PhoneCalled /\ IsSome(locals.data)

\* C25: the phone risk score is one of 0, 30, 70 and 100 (70 for an invalid
\* number plus 30 for a VOIP line, at most 100); isSafe is true exactly when
\* the score is below 50, which is exactly when the service reports the
\* number valid: a VOIP line alone never makes a number unsafe.
C25_RiskScoreAndVerdict ==
    PhoneScored =>
        LET valid == locals.data[1].valid = "true"
            voip == locals.data[1].type = "voip"
        IN  /\ locals.riskScore \in {0, 30, 70, 100}
            /\ locals.riskScore = (IF valid THEN 0 ELSE 70) + (IF voip THEN 30 ELSE 0)
            /\ locals.isSafe = (locals.riskScore < 50)
            /\ locals.isSafe = valid
            /\ (IsSome(response) /\ response[1].status = 200) =>
                   /\ response[1].body.riskScore = locals.riskScore
                   /\ response[1].body.isSafe = valid

\* A valid number on a VOIP line has been answered as safe with score 30.
C25_Witness ==
    /\ PhoneScored
    /\ locals.data[1].valid = "true" /\ locals.data[1].type = "voip"
    /\ IsSome(response) /\ response[1].status = 200
    /\ response[1].body.riskScore = 30
    /\ response[1].body.isSafe = TRUE

\* The number of responses sent for the request.
RECURSIVE Responses(_)
Responses(log) ==
    IF log = <<>> THEN 0
    ELSE (IF Head(log) = "respond" THEN 1 ELSE 0) + Responses(Tail(log))

\* C26 (as claimed): every request handled by a check route or a history
\* route gets exactly one HTTP response on every path: never two, and the
\* handling never ends without one.
C26_ExactlyOneResponse ==
    handler \in {"index", "router", "phone", "history", "phoneHistory"} =>
        /\ Responses(steps) <= 1
        /\ IsSome(response) <=> Responses(steps) = 1
        /\ pc = "done" => Responses(steps) = 1
        /\ pc # "down"

-----------------------------------------------------------------------------
(* Specification SpecConcurrent: check requests handled at the same time.   *)
(* Each handler awaits storage.create...Check and then                      *)
(* storage.getRecent...Checks(10); between the two awaits the handlers of   *)
(* other requests run.  MaxWatched requests are followed step by step; of   *)
(* the other requests only the records they persist are kept.               *)

MaxWatched == 2

MaxOthers == 10

Watched == 1..MaxWatched

\* The records in a collection that another request has persisted.
OthersIn(collection) ==
    Cardinality({k \in 1..Len(collection) : collection[k].by = 0})

\* storage, lines 63-71 and 89-97: orderBy("checkedAt", "desc"), limit(n) on
\* a collection kept in the order of checkedAt.
recentOf(collection, n) ==
    LET all == Reverse(collection)
    IN  IF Len(all) <= n THEN all ELSE SubSeq(all, 1, n)

\* routes, lines 106 and 238; storage, lines 55-61 and 74-87: the record of
\* request i is added with the server's timestamp.
ConcCreated(i) ==
    /\ cPc[i] = "start"
    /\ cCollection' = Append(cCollection, [by |-> i])
    /\ cPc' = [cPc EXCEPT ![i] = "created"]
    /\ UNCHANGED cHistory
    /\ UNCHANGED notConcVars

\* The same lines run for a request that is not followed.
OtherCreated ==
    /\ OthersIn(cCollection) < MaxOthers
    /\ cCollection' = Append(cCollection, [by |-> 0])
    /\ UNCHANGED <<cPc, cHistory>>
    /\ UNCHANGED notConcVars

\* routes, lines 109-118 and 241-247: the history is read and returned.
ConcAnswered(i) ==
    /\ cPc[i] = "created"
    /\ cHistory' = [cHistory EXCEPT ![i] = recentOf(cCollection, 10)]
    /\ cPc' = [cPc EXCEPT ![i] = "answered"]
    /\ UNCHANGED cCollection
    /\ UNCHANGED notConcVars

InitConcurrent ==
    /\ cCollection = <<>>
    /\ cPc = [i \in Watched |-> "start"]
    /\ cHistory = [i \in Watched |-> <<>>]
    /\ OthersIdleForConc

NextConcurrent ==
    \/ \E i \in Watched : ConcCreated(i)
    \/ OtherCreated
    \/ \E i \in Watched : ConcAnswered(i)

SpecConcurrent == InitConcurrent /\ [][NextConcurrent]_vars

\* C27 (as claimed): under any interleaving of concurrent check requests the
\* history returned in a successful check response (the 10 most recent
\* records by checkedAt, newest first) holds the record this same request
\* has just persisted.
C27_HistoryHoldsOwnRecord ==
    \A i \in Watched :
        cPc[i] = "answered" => \E k \in 1..Len(cHistory[i]) : cHistory[i][k].by = i

-----------------------------------------------------------------------------
(* Specification SpecHistory: the URL history of the client (URLChecker.tsx *)
(* lines 148-264).  An entry of the history is the check it records: its    *)
(* ordinal n among all the checks, and the verdict shown.                   *)

\* Bound: the number of checks, those of the stored history included.
MaxChecks == 12

\* The limit of the history: slice(0, 10).
HistoryLimit == 10

\* arr.slice(from, to) for 0 <= from <= to.
slice(arr, from, to) ==
    SubSeq(arr, from + 1, IF to < Len(arr) THEN to ELSE Len(arr))

\* Faulty variant: the history is not cut.
addUrlCheck_noSlice(prev, check) == <<check>> \o prev

\* URLChecker.tsx line 245 and CheckHistoryContext addUrlCheck (lines 84-86):
\* [check, ...prev].slice(0, 10).
addUrlCheck(prev, check) == slice(<<check>> \o prev, 0, HistoryLimit)

\* JSON.stringify / JSON.parse of a history: the stored text is kept as the
\* array of the entries it spells.
stringify(h) == [json |-> h]

parse(text) == text.json

\* The histories an earlier session has stored: the last k checks, newest
\* first.
StoredHistory(k) == [i \in 1..k |-> [n |-> k + 1 - i, isSafe |-> TRUE]]

\* URLChecker.tsx lines 157-171.
loadHistoryFromStorage == IF IsSome(localStore) THEN parse(localStore[1]) ELSE <<>>

\* URLChecker.tsx lines 205-212: the effect that runs when urlHistory has
\* changed to h.
SaveEffect(h) ==
    IF Len(h) > 0 THEN localStore' = Some(stringify(h)) ELSE UNCHANGED localStore

\* URLChecker.tsx lines 188-212: the effects of the first render.
Mount ==
    /\ ~mounted
    /\ mounted' = TRUE
    /\ urlHistory' = loadHistoryFromStorage
    /\ SaveEffect(urlHistory')
    /\ UNCHANGED checked
    /\ UNCHANGED notHistVars

\* URLChecker.tsx lines 230-246: onSuccess of a check, then the save effect.
CheckSuccess(safe) ==
    /\ mounted
    /\ checked < MaxChecks
    /\ checked' = checked + 1
    /\ urlHistory' = addUrlCheck(urlHistory, [n |-> checked', isSafe |-> safe])
    /\ SaveEffect(urlHistory')
    /\ UNCHANGED mounted
    /\ UNCHANGED notHistVars

\* URLChecker.tsx lines 260-264: clearHistory, then the save effect.
clearHistory ==
    /\ mounted
    /\ urlHistory' = <<>>
    /\ localStore' = None
    /\ UNCHANGED <<mounted, checked>>
    /\ UNCHANGED notHistVars

InitHistory ==
    /\ urlHistory = <<>>
    /\ mounted = FALSE
    /\ checked \in 0..HistoryLimit
    /\ localStore \in {None, Some(stringify(StoredHistory(checked)))}
    /\ OthersIdleForHist

NextHistory ==
    \/ Mount
    \/ \E safe \in BOOLEAN : CheckSuccess(safe)
    \/ clearHistory

SpecHistory == InitHistory /\ [][NextHistory]_vars

NewestFirst(h) == \A i, j \in 1..Len(h) : i < j => h[i].n > h[j].n

\* C20: after any checks and clears the history holds at most 10 entries,
\* newest first; a check puts its entry at the head and keeps the entries
\* before it in their order, and when the history was full it drops the
\* oldest, the last one.
C20_HistoryKeepsLastTen ==
    /\ [](Len(urlHistory) <= HistoryLimit /\ NewestFirst(urlHistory))
    /\ [][checked' # checked =>
             /\ urlHistory'[1].n = checked'
             /\ Tail(urlHistory') =
                    IF Len(urlHistory) = HistoryLimit
                    THEN SubSeq(urlHistory, 1, HistoryLimit - 1)
                    ELSE urlHistory]_vars

\* An eleventh check has entered a full history.
C20_Witness ==
    /\ checked > HistoryLimit
    /\ Len(urlHistory) = HistoryLimit
    /\ urlHistory[1].n = checked
    /\ urlHistory[HistoryLimit].n = checked - HistoryLimit + 1

-----------------------------------------------------------------------------
(* Specification SpecPhoneHistory: the phone history of the client, kept by *)
(* the PhoneChecker component that has the clear-history button             *)
(* (PhoneChecker, lines 555-709 of the file that holds it).                 *)

\* PhoneChecker lines 571-585.
loadPhoneHistoryFromStorage ==
    IF IsSome(phoneStore) THEN parse(phoneStore[1]) ELSE <<>>

\* PhoneChecker lines 619-626: the effect that runs when phoneHistory has
\* changed to h.
SavePhoneEffect(h) ==
    IF Len(h) > 0 THEN phoneStore' = Some(stringify(h)) ELSE UNCHANGED phoneStore

\* PhoneChecker lines 602-626: the effects of the first render.
MountPhone ==
    /\ ~phoneMounted
    /\ phoneMounted' = TRUE
    /\ phoneHistory' = loadPhoneHistoryFromStorage
    /\ SavePhoneEffect(phoneHistory')
    /\ UNCHANGED phoneChecked
    /\ UNCHANGED notPhoneVars

\* PhoneChecker lines 686-689: the updater of onSuccess.  newHistory is
\* returned as it is.
addPhoneHistoryItem(prev, historyItem) == <<historyItem>> \o prev

\* PhoneChecker lines 669-690: onSuccess of a check, then the save effect.
PhoneCheckSuccess(safe) ==
    /\ phoneMounted
    /\ phoneChecked < MaxChecks
    /\ phoneChecked' = phoneChecked + 1
    /\ phoneHistory' = addPhoneHistoryItem(phoneHistory,
                                           [n |-> phoneChecked', isSafe |-> safe])
    /\ SavePhoneEffect(phoneHistory')
    /\ UNCHANGED phoneMounted
    /\ UNCHANGED notPhoneVars

\* PhoneChecker lines 705-709: clearHistory, then the save effect.
clearPhoneHistory ==
    /\ phoneMounted
    /\ phoneHistory' = <<>>
    /\ phoneStore' = None
    /\ UNCHANGED <<phoneMounted, phoneChecked>>
    /\ UNCHANGED notPhoneVars

InitPhoneHistory ==
    /\ phoneHistory = <<>>
    /\ phoneMounted = FALSE
    /\ phoneChecked \in 0..HistoryLimit
    /\ phoneStore \in {None, Some(stringify(StoredHistory(phoneChecked)))}
    /\ OthersIdleForPhone

NextPhoneHistory ==
    \/ MountPhone
    \/ \E safe \in BOOLEAN : PhoneCheckSuccess(safe)
    \/ clearPhoneHistory

SpecPhoneHistory == InitPhoneHistory /\ [][NextPhoneHistory]_vars

\* C21 (as claimed): after any phone checks and clears the phone history
\* holds at most 10 entries, newest first.
C21_PhoneHistoryKeepsLastTen ==
    /\ Len(phoneHistory) <= HistoryLimit
    /\ NewestFirst(phoneHistory)

-----------------------------------------------------------------------------
(* Specification SpecStorage: the StorageManager of the client              *)
(* (URLChecker.tsx lines 44-133; the PhoneChecker has the same class), for  *)
(* one key.  The browser storage may throw on any call (quota, privacy      *)
(* settings); the Map of memoryStorage never does.                          *)

MaxStoredLen == 2

\* The values written under the key: histories as JSON text.
Texts == {stringify(StoredHistory(k)) : k \in 0..MaxStoredLen}

\* The StorageManager as one value.
Manager == [storage |-> smStorage, browser |-> smBrowser, memory |-> smMemory]

\* URLChecker.tsx lines 86-106: setItem(key, value); throws tells whether
\* the browser storage throws on this call.
setItemOf(m, value, throws) ==
    IF m.storage # "none" /\ ~throws
    THEN [m |-> [m EXCEPT !.browser = Some(value)], ret |-> TRUE]
    ELSE [m |-> [m EXCEPT !.memory = Some(value)], ret |-> TRUE]

\* URLChecker.tsx lines 108-119: getItem(key).
getItemOf(m, throws) ==
    IF m.storage # "none" /\ ~throws THEN m.browser ELSE m.memory

\* URLChecker.tsx lines 121-133: removeItem(key).
removeItemOf(m, throws) ==
    IF m.storage # "none"
    THEN IF throws THEN [m |-> m, ret |-> FALSE]
         ELSE [m |-> [m EXCEPT !.browser = None], ret |-> TRUE]
    ELSE [m |-> [m EXCEPT !.memory = None], ret |-> TRUE]

\* The StorageManager becomes m.
Becomes(m) ==
    /\ smStorage' = m.storage
    /\ smBrowser' = m.browser
    /\ smMemory' = m.memory

\* Only a browser storage can throw.
CanThrow(throws) == throws => smStorage # "none"

setItem(value, throws) ==
    /\ CanThrow(throws)
    /\ LET r == setItemOf(Manager, value, throws)
       IN  /\ Becomes(r.m)
           /\ smLast' = [op |-> "setItem", arg |-> Some(value), ret |-> r.ret]
    /\ UNCHANGED notSmVars

getItem(throws) ==
    /\ CanThrow(throws)
    /\ smLast' = [op |-> "getItem", arg |-> None, ret |-> getItemOf(Manager, throws)]
    /\ UNCHANGED <<smStorage, smBrowser, smMemory>>
    /\ UNCHANGED notSmVars

removeItem(throws) ==
    /\ CanThrow(throws)
    /\ LET r == removeItemOf(Manager, throws)
       IN  /\ Becomes(r.m)
           /\ smLast' = [op |-> "removeItem", arg |-> None, ret |-> r.ret]
    /\ UNCHANGED notSmVars

\* URLChecker.tsx lines 51-71: the constructor has chosen the storage; a
\* browser storage may hold what an earlier session wrote.
Constructed ==
    /\ smStorage \in {"localStorage", "sessionStorage", "none"}
    /\ smBrowser \in {None} \cup {Some(t) : t \in Texts}
    /\ smStorage = "none" => smBrowser = None
    /\ smMemory = None
    /\ smLast = NoCall

InitStorage == Constructed /\ OthersIdleForSm

NextStorage ==
    \/ \E value \in Texts, throws \in BOOLEAN : setItem(value, throws)
    \/ \E throws \in BOOLEAN : getItem(throws)
    \/ \E throws \in BOOLEAN : removeItem(throws)

SpecStorage == InitStorage /\ [][NextStorage]_vars

\* The call before this step was op and it returned true.
ReturnedTrue(op) == smLast.op = op /\ smLast.ret = TRUE

\* C28 (as claimed): the StorageManager round-trips: when setItem(key, v)
\* has returned true a following getItem(key) returns v, and when
\* removeItem(key) has returned true a following getItem(key) returns null,
\* also when the browser storage throws on some calls and the memory
\* fallback is used.
C28_StorageRoundTrip ==
    [][smLast'.op = "getItem" =>
           /\ ReturnedTrue("setItem") => smLast'.ret = smLast.arg
           /\ ReturnedTrue("removeItem") => smLast'.ret = None]_vars

-----------------------------------------------------------------------------
(* Specification SpecPersist: the URL history of the client kept through    *)
(* the StorageManager, over reloads of the page.                            *)

MaxSaves == 3

\* URLChecker.tsx lines 157-171: the history read through getItem.
loadedFrom(text) == IF IsSome(text) THEN parse(text[1]) ELSE <<>>

\* URLChecker.tsx lines 205-212: the save effect for the history h, given a
\* manager m whose last call was last.
SavedThrough(m, last, h, throws) ==
    IF Len(h) > 0
    THEN LET r == setItemOf(m, stringify(h), throws)
         IN  /\ Becomes(r.m)
             /\ smLast' = [op |-> "setItem", arg |-> Some(stringify(h)), ret |-> r.ret]
    ELSE /\ Becomes(m)
         /\ smLast' = last

\* URLChecker.tsx lines 188-212: the effects of the first render.
PersistMount(throwsGet, throwsSet) ==
    /\ ~mounted
    /\ CanThrow(throwsGet) /\ CanThrow(throwsSet)
    /\ mounted' = TRUE
    /\ LET got == getItemOf(Manager, throwsGet)
       IN  /\ urlHistory' = loadedFrom(got)
           /\ SavedThrough(Manager, [op |-> "getItem", arg |-> None, ret |-> got],
                           urlHistory', throwsSet)
    /\ UNCHANGED <<localStore, checked>>
    /\ UNCHANGED notHistSmVars

\* URLChecker.tsx lines 230-246: onSuccess of a check, then the save effect.
PersistCheck(safe, throws) ==
    /\ mounted
    /\ CanThrow(throws)
    /\ checked < MaxSaves
    /\ checked' = checked + 1
    /\ urlHistory' = addUrlCheck(urlHistory, [n |-> checked', isSafe |-> safe])
    /\ SavedThrough(Manager, smLast, urlHistory', throws)
    /\ UNCHANGED <<localStore, mounted>>
    /\ UNCHANGED notHistSmVars

\* URLChecker.tsx lines 260-264: clearHistory, then the save effect.
PersistClear(throws) ==
    /\ mounted
    /\ CanThrow(throws)
    /\ urlHistory' = <<>>
    /\ LET r == removeItemOf(Manager, throws)
       IN  /\ Becomes(r.m)
           /\ smLast' = [op |-> "removeItem", arg |-> None, ret |-> r.ret]
    /\ UNCHANGED <<localStore, mounted, checked>>
    /\ UNCHANGED notHistSmVars

\* The page is loaded again: the module runs anew, so the component state
\* and memoryStorage start empty; the browser storage keeps its content.
Reload ==
    /\ mounted
    /\ mounted' = FALSE
    /\ urlHistory' = <<>>
    /\ smMemory' = None
    /\ smLast' = NoCall
    /\ UNCHANGED <<smStorage, smBrowser>>
    /\ UNCHANGED <<localStore, checked>>
    /\ UNCHANGED notHistSmVars

InitPersist ==
    /\ Constructed
    /\ urlHistory = <<>>
    /\ localStore = None
    /\ mounted = FALSE
    /\ checked = 0
    /\ MatchIdle /\ SslIdle /\ TwoIdle /\ SrvIdle /\ PhoneIdle /\ PhoneSrvIdle
    /\ ConcIdle

NextPersist ==
    \/ \E throwsGet, throwsSet \in BOOLEAN : PersistMount(throwsGet, throwsSet)
    \/ \E safe, throws \in BOOLEAN : PersistCheck(safe, throws)
    \/ \E throws \in BOOLEAN : PersistClear(throws)
    \/ Reload

SpecPersist == InitPersist /\ [][NextPersist]_vars

\* What getItem gives for the key now.
StoredUnderKey == getItemOf(Manager, FALSE)

\* The history a reload of the page would show.
AfterReload == loadedFrom(getItemOf([Manager EXCEPT !.memory = None], FALSE))

\* C29 (as claimed): the client saves the history whenever it changes: the
\* history stored under the key is the history in memory whenever that is
\* not empty, the key is absent after a clear, and a reload restores the
\* history last displayed.
C29_StoredHistoryIsDisplayedHistory ==
    mounted =>
        /\ Len(urlHistory) > 0 => StoredUnderKey = Some(stringify(urlHistory))
        /\ smLast.op = "removeItem" => StoredUnderKey = None
        /\ AfterReload = urlHistory

-----------------------------------------------------------------------------
(* Specification SpecMatch: matchesDomain applied to every pair of names   *)
(* within the bounds.                                                      *)

MatchHosts == Strs(MaxHostLen)

MatchCerts == Strs(MaxBaseLen) \cup {WildcardPrefix \o b : b \in Strs(MaxBaseLen)}

InitMatch ==
    /\ mHost \in MatchHosts
    /\ mCert \in MatchCerts
    /\ mDone = FALSE
    /\ mResult = FALSE
    /\ OthersIdleForMatch

ApplyMatch ==
    /\ ~mDone
    /\ mResult' = matchesDomain(mHost, mCert)
    /\ mDone' = TRUE
    /\ UNCHANGED <<mHost, mCert>>
    /\ UNCHANGED notMatchVars

NextMatch == ApplyMatch

SpecMatch == InitMatch /\ [][NextMatch]_vars

-----------------------------------------------------------------------------
(* Vocabulary of the statements about matchesDomain, defined without the   *)
(* string primitives above.                                                *)

LetterCases == {{"a", "A"}}

SameLetter(x, y) == x = y \/ {x, y} \in LetterCases

EqualIgnoringCase(s, t) ==
    Len(s) = Len(t) /\ \A i \in 1..Len(s) : SameLetter(s[i], t[i])

OtherCase(ch) == IF ch = "a" THEN "A" ELSE IF ch = "A" THEN "a" ELSE ch

\* Every respelling of s that changes the case of some of its letters.
CaseVariants(s) ==
    {[i \in 1..Len(s) |-> IF i \in m THEN OtherCase(s[i]) ELSE s[i]] :
        m \in SUBSET {i \in 1..Len(s) : OtherCase(s[i]) # s[i]}}

\* certName is "*." followed by a base domain.
IsWildcardName(c) == Len(c) >= 2 /\ c[1] = "*" /\ c[2] = "."

BaseOf(c) == [i \in 1..(Len(c) - 2) |-> c[i + 2]]

EndsWithIgnoringCase(h, base) ==
    /\ Len(h) >= Len(base)
    /\ \A i \in 1..Len(base) : SameLetter(h[Len(h) - Len(base) + i], base[i])

\* hostname holds a '.' in the part before the matched suffix.
DotBeforeSuffix(h, base) == \E i \in 1..(Len(h) - Len(base)) : h[i] = "."

\* A well-formed host name: non-empty labels of letters separated by '.'.
IsHostname(h) ==
    /\ Len(h) > 0
    /\ \A i \in 1..Len(h) : h[i] # "*"
    /\ h[1] # "." /\ h[Len(h)] # "."
    /\ \A i \in 1..(Len(h) - 1) : ~(h[i] = "." /\ h[i + 1] = ".")

\* C1 (as claimed): for certName = "*." + base, matchesDomain is true iff
\* hostname ends with base and holds at least one '.' before the matched
\* suffix; the bare base domain never matches its own wildcard.
C1_WildcardIffSuffixAndDotBefore ==
    (mDone /\ IsHostname(mHost) /\ IsWildcardName(mCert)
           /\ IsHostname(BaseOf(mCert))) =>
        (mResult <=> (/\ EndsWithIgnoringCase(mHost, BaseOf(mCert))
                      /\ DotBeforeSuffix(mHost, BaseOf(mCert))))

\* C2: for a wildcard name "*." + base, a hostname that does not end with
\* base (both lower-cased) is never matched.
C2_NoSuffixNoMatch ==
    (mDone /\ IsWildcardName(mCert)
           /\ ~EndsWithIgnoringCase(mHost, BaseOf(mCert))) => mResult = FALSE

\* matches("a.a", "*.aa"): the hostname has a '.' but another suffix.
C2_Witness ==
    /\ mDone
    /\ mCert = <<"*", ".", "a", "a">>
    /\ mHost = <<"a", ".", "a">>
    /\ mResult = FALSE

\* C3: changing the letter case of hostname or of certName never changes
\* the result of matchesDomain (each argument respelled in every way; the
\* pairs of names are closed under respelling, so both together follow).
C3_CaseInsensitive ==
    mDone => /\ \A h2 \in CaseVariants(mHost) : matchesDomain(h2, mCert) = mResult
             /\ \A c2 \in CaseVariants(mCert) : matchesDomain(mHost, c2) = mResult

\* matches("A.a", "A.A") in the spelling of the example Example.com / EXAMPLE.COM.
C3_Witness ==
    /\ mDone
    /\ mHost = <<"A", ".", "a">>
    /\ mCert = <<"A", ".", "A">>
    /\ mResult = TRUE

\* C4: a certName that does not begin with "*." matches exactly the
\* hostnames equal to it ignoring case.
C4_NonWildcardIffEqual ==
    (mDone /\ ~IsWildcardName(mCert)) =>
        (mResult <=> EqualIgnoringCase(mHost, mCert))

\* A plain name matched by a hostname spelled in another case.
C4_Witness ==
    /\ mDone
    /\ ~IsWildcardName(mCert)
    /\ Len(mCert) = MaxBaseLen
    /\ mHost # mCert
    /\ mResult = TRUE

=============================================================================
